---- MODULE Spec2Model ----
(***************************************************************************)
(* A model of dompile's include resolution and build engine:                *)
(*   - the path resolver (utils/path-resolver.js),                          *)
(*   - the include processor (core/include-processor.js),                   *)
(*   - the dependency tracker (core/dependency-tracker.js),                 *)
(*   - the asset tracker (core/asset-tracker.js),                           *)
(*   - the full and the incremental build of core/file-processor.js, with   *)
(*     its output layout and its modification cache,                        *)
(*   - the watcher (core/file-watcher.js): its change handler with the      *)
(*     debounce timer, and its fallback to a full build,                    *)
(*   - the request handler of the development server (server/dev-server.js).*)
(* Text is modelled as a sequence of symbols.  A path is a sequence whose   *)
(* symbols are "/", "." and name characters; a document is a sequence of    *)
(* tokens, a token being one character or one include directive.            *)
(***************************************************************************)
EXTENDS Integers, Sequences, FiniteSets, TLC

VARIABLES
    rin,        \* arguments of the pending resolveIncludePath call
    rout,       \* its outcome
    fs,         \* the source tree: path -> [st, c]
    phase,      \* position of build(): "idle", "content", "assets", "done",
                \* "failed"; of incrementalBuild(): "rebuild", "rebuilt",
                \* "rebuild-failed"; "watching" once the watcher has dealt
                \* with a fallback; of the development server's
                \* processFileChange(): "serving", "served"
    todo,       \* source files the content loop has not visited yet
    job,        \* the content file being processed, if any
    calls,      \* the pending processIncludes calls of the job, innermost last
    exc,        \* the error in flight between two of those calls, if any
    dt,         \* the DependencyTracker of the build
    output,     \* the output tree: path -> written content
    results,    \* the build's results object (processed, skipped, errors)
    last,       \* outcome of the last processHtmlFile / processMarkdownFile
    affected,   \* outcome of the last getAffectedPages call on dt
    at,         \* the build's AssetTracker
    outcome,    \* what the last build reported: its result, or the error thrown
    incr,       \* the incremental build under way: the changed file, and the
                \* output and trackers it started from
    trk,        \* a stand-alone DependencyTracker driven call by call
    op,         \* the last call made on trk, with the tracker before it
    atrk,       \* a stand-alone AssetTracker driven call by call
    arec,       \* the content last recorded on atrk for each page it tracks,
                \* and whether that replaced an earlier recording
    aop,        \* the last call made on atrk
    mtime,      \* the modification time of each source file
    cache,      \* fileModificationCache of core/file-processor.js
    watch       \* the variables of watch(): whether the watcher is set up, and
                \* the trackers it holds when they are not the ones of the
                \* build under way; in SpecDebounce buildInProgress, the
                \* debounce timer and the callbacks awaiting a build

pathVars  == <<rin, rout>>
runVars   == <<at, outcome, incr>>
buildVars == <<fs, phase, todo, job, calls, exc, dt, output, results, last, affected,
               at, outcome, incr>>
depVars   == <<trk, op>>
assetVars == <<atrk, arec, aop>>
watchVars == <<mtime, cache, watch>>
vars      == <<rin, rout, fs, phase, todo, job, calls, exc, dt, output, results, last,
               affected, at, outcome, incr, trk, op, atrk, arec, aop, mtime, cache, watch>>

-----------------------------------------------------------------------------
(* Bounds of the model *)

MaxRawLen == 4

\* the longest include chain of the source trees is MaxChain files below its top
MaxChain == 12

\* the most entries of an include list given to recordDependencies
MaxDeps == 2

-----------------------------------------------------------------------------
(* Strings *)

StartsWith(s, pre) ==
    /\ Len(pre) <= Len(s)
    /\ SubSeq(s, 1, Len(pre)) = pre

RECURSIVE IndexOf(_, _, _)
\* first position >= i of symbol c in s, 0 when there is none
IndexOf(s, c, i) ==
    IF i > Len(s) THEN 0
    ELSE IF s[i] = c THEN i
    ELSE IndexOf(s, c, i + 1)

RECURSIVE Split(_)
\* s.split("/")
Split(s) ==
    LET k == IndexOf(s, "/", 1)
    IN  IF k = 0 THEN <<s>>
        ELSE <<SubSeq(s, 1, k - 1)>> \o Split(SubSeq(s, k + 1, Len(s)))

RECURSIVE JoinSegs(_)
\* segs.join("/")
JoinSegs(segs) ==
    IF segs = <<>> THEN <<>>
    ELSE IF Len(segs) = 1 THEN segs[1]
    ELSE segs[1] \o <<"/">> \o JoinSegs(Tail(segs))

RECURSIVE NormSegs(_, _, _)
\* Node's normalizeString with allowAboveRoot = false: empty and "." segments
\* vanish, ".." removes the segment before it and is dropped at the root.
NormSegs(segs, i, acc) ==
    IF i > Len(segs) THEN acc
    ELSE IF segs[i] = <<>> \/ segs[i] = <<".">> THEN NormSegs(segs, i + 1, acc)
    ELSE IF segs[i] = <<".", ".">>
         THEN NormSegs(segs, i + 1,
                       IF acc = <<>> THEN acc ELSE SubSeq(acc, 1, Len(acc) - 1))
    ELSE NormSegs(segs, i + 1, Append(acc, segs[i]))

\* the segments of the canonical form of an absolute path
Segs(p) == NormSegs(Split(p), 1, <<>>)

\* path.resolve(from, to) for an absolute `from` (every caller passes one)
PathResolve(from, to) ==
    LET joined == IF to # <<>> /\ to[1] = "/" THEN to
                  ELSE IF to = <<>> THEN from
                  ELSE from \o <<"/">> \o to
    IN  <<"/">> \o JoinSegs(Segs(joined))

RECURSIVE DirEnd(_, _, _)
\* path.dirname's backward scan: the index of the slash that ends the
\* directory part, 0 when there is none
DirEnd(p, i, matchedSlash) ==
    IF i < 2 THEN 0
    ELSE IF p[i] = "/"
         THEN IF ~matchedSlash THEN i ELSE DirEnd(p, i - 1, matchedSlash)
    ELSE DirEnd(p, i - 1, FALSE)

\* path.dirname(p), POSIX
PathDirname(p) ==
    IF p = <<>> THEN <<".">>
    ELSE LET e == DirEnd(p, Len(p), TRUE)
             hasRoot == p[1] = "/"
         IN  IF e = 0 THEN (IF hasRoot THEN <<"/">> ELSE <<".">>)
             ELSE SubSeq(p, 1, e - 1)

RECURSIVE StripLeadingSlashes(_)
\* includePath.replace(/^\/+/, '')
StripLeadingSlashes(s) ==
    IF s # <<>> /\ s[1] = "/" THEN StripLeadingSlashes(Tail(s)) ELSE s

RECURSIVE CollapseSlashes(_)
\* cleanPath.replace(/\/+/g, '/')
CollapseSlashes(s) ==
    IF Len(s) < 2 THEN s
    ELSE IF s[1] = "/" /\ s[2] = "/" THEN CollapseSlashes(Tail(s))
    ELSE <<s[1]>> \o CollapseSlashes(Tail(s))

-----------------------------------------------------------------------------
(* utils/path-resolver.js *)

IsPathWithinDirectory(filePath, directory) ==
    LET resolvedFilePath == PathResolve(<<"/">>, filePath)
        resolvedDirectory == PathResolve(<<"/">>, directory)
    IN  \/ StartsWith(resolvedFilePath, resolvedDirectory \o <<"/">>)
        \/ resolvedFilePath = resolvedDirectory

Ok(p)    == [ok |-> TRUE, path |-> p, err |-> "none"]
Throw(e) == [ok |-> FALSE, path |-> <<>>, err |-> e]

ResolveIncludePath(type, includePath, currentFilePath, sourceRoot) ==
    IF includePath = <<>> THEN Throw("Error")
    ELSE IF type \notin {"file", "virtual"} THEN Throw("Error")
    ELSE LET resolvedPath ==
                 IF type = "file"
                 THEN PathResolve(PathDirname(currentFilePath), includePath)
                 ELSE PathResolve(sourceRoot,
                                  CollapseSlashes(StripLeadingSlashes(includePath)))
         IN  IF ~IsPathWithinDirectory(resolvedPath, sourceRoot)
             THEN Throw("PathTraversalError")
             ELSE Ok(resolvedPath)

-----------------------------------------------------------------------------
(* Documents *)

\* one character of text
Chr(c) == [k |-> "chr", a |-> c, p |-> <<>>]

\* one include directive <!--#include a="p" --> (a is the attribute as written)
Inc(type, path) == [k |-> "inc", a |-> type, p |-> path]

\* Array.from(htmlContent.matchAll(INCLUDE_DIRECTIVE_REGEX)): the directives
\* of a document in source order
Matches(content) == SelectSeq(content, LAMBDA tok : tok.k = "inc")

RECURSIVE GetSubstitution(_, _, _, _, _)
\* the replacement text String.prototype.replace builds from a replacement
\* string: $$ is a dollar, $& the matched text, $` the text before the match,
\* $' the text after it; there are no capture groups
GetSubstitution(rep, i, matched, before, after) ==
    IF i > Len(rep) THEN <<>>
    ELSE IF rep[i] = Chr("$") /\ i < Len(rep) /\ rep[i + 1] = Chr("$")
         THEN <<Chr("$")>> \o GetSubstitution(rep, i + 2, matched, before, after)
    ELSE IF rep[i] = Chr("$") /\ i < Len(rep) /\ rep[i + 1] = Chr("&")
         THEN matched \o GetSubstitution(rep, i + 2, matched, before, after)
    ELSE IF rep[i] = Chr("$") /\ i < Len(rep) /\ rep[i + 1] = Chr("`")
         THEN before \o GetSubstitution(rep, i + 2, matched, before, after)
    ELSE IF rep[i] = Chr("$") /\ i < Len(rep) /\ rep[i + 1] = Chr("'")
         THEN after \o GetSubstitution(rep, i + 2, matched, before, after)
    ELSE <<rep[i]>> \o GetSubstitution(rep, i + 1, matched, before, after)

\* processedContent.replace(fullMatch, replacement): the first occurrence of
\* the directive is replaced
StringReplace(str, fullMatch, replacement) ==
    LET pos == IndexOf(str, fullMatch, 1)
        before == SubSeq(str, 1, pos - 1)
        after == SubSeq(str, pos + 1, Len(str))
    IN  IF pos = 0 THEN str
        ELSE before \o GetSubstitution(replacement, 1, <<fullMatch>>, before, after)
                    \o after

-----------------------------------------------------------------------------
(* JavaScript Map (insertion ordered), Array and Set (insertion ordered)    *)

MapIdx(m, key) ==
    IF \E i \in 1..Len(m) : m[i].k = key
    THEN CHOOSE i \in 1..Len(m) : m[i].k = key
    ELSE 0

MapHas(m, key) == MapIdx(m, key) # 0

\* m.get(key) || []
MapGet(m, key) == IF MapHas(m, key) THEN m[MapIdx(m, key)].v ELSE <<>>

MapSet(m, key, val) ==
    IF MapHas(m, key)
    THEN [m EXCEPT ![MapIdx(m, key)] = [k |-> key, v |-> val]]
    ELSE Append(m, [k |-> key, v |-> val])

RemoveAt(s, i) == SubSeq(s, 1, i - 1) \o SubSeq(s, i + 1, Len(s))

MapDelete(m, key) == IF MapHas(m, key) THEN RemoveAt(m, MapIdx(m, key)) ELSE m

MapKeys(m) == {m[i].k : i \in 1..Len(m)}

Range(s) == {s[i] : i \in 1..Len(s)}

\* array.indexOf(x), 1-based, 0 for -1
ArrIndexOf(s, x) ==
    IF \E i \in 1..Len(s) : s[i] = x
    THEN CHOOSE i \in 1..Len(s) : s[i] = x /\ \A j \in 1..(i - 1) : s[j] # x
    ELSE 0

\* set.add(x) on an insertion-ordered Set
SetAdd(s, x) == IF x \in Range(s) THEN s ELSE Append(s, x)

RECURSIVE SetAddAll(_, _)
\* new Set(array), and array.forEach(x => set.add(x))
SetAddAll(s, arr) ==
    IF arr = <<>> THEN s ELSE SetAddAll(SetAdd(s, Head(arr)), Tail(arr))

-----------------------------------------------------------------------------
(* core/file-processor.js: the modification cache, a Map from path to the   *)
(* modification time last seen                                              *)

\* fileModificationCache.get(filePath): undefined when there is no entry
CacheGet(m, filePath) ==
    IF MapHas(m, filePath)
    THEN [defined |-> TRUE, v |-> m[MapIdx(m, filePath)].v]
    ELSE [defined |-> FALSE, v |-> 0]

\* !value for a value that is undefined or a number
Not(value) == ~value.defined \/ value.v = 0

HasFileChanged(filePath) ==
    LET currentMtime == mtime[filePath]
        cachedMtime == CacheGet(cache, filePath)
    IN  Not(cachedMtime) \/ currentMtime > cachedMtime.v

RECURSIVE CacheSetAll(_, _)
\* fileModificationCache.set(filePath, stats.mtime.getTime()) for each file of
\* a list
CacheSetAll(m, files) ==
    IF files = <<>> THEN m
    ELSE CacheSetAll(MapSet(m, Head(files), mtime[Head(files)]), Tail(files))

\* the cache after one round of the rebuild loop that ended without an error
CacheAfter(filePath) == MapSet(cache, filePath, mtime[filePath])

-----------------------------------------------------------------------------
(* core/dependency-tracker.js *)

NewTracker == [includesInPage |-> <<>>, pagesByInclude |-> <<>>, knownFiles |-> {}]

RECURSIVE ClearReverse(_, _, _)
\* the loop of clearPageDependencies over existingIncludes
ClearReverse(inv, incs, pagePath) ==
    IF incs = <<>> THEN inv
    ELSE LET includePath == Head(incs)
         IN  IF ~MapHas(inv, includePath)
             THEN ClearReverse(inv, Tail(incs), pagePath)
             ELSE LET pages == MapGet(inv, includePath)
                      index == ArrIndexOf(pages, pagePath)
                      spliced == IF index > 0 THEN RemoveAt(pages, index) ELSE pages
                  IN  ClearReverse(
                          IF spliced = <<>> THEN MapDelete(inv, includePath)
                          ELSE MapSet(inv, includePath, spliced),
                          Tail(incs), pagePath)

\* a variant of clearPageDependencies that forgets the reverse mapping
ClearPageDependencies_fwdOnly(t, pagePath) ==
    [t EXCEPT !.includesInPage = MapDelete(t.includesInPage, pagePath)]

ClearPageDependencies(t, pagePath) ==
    IF MapHas(t.includesInPage, pagePath)
    THEN [t EXCEPT
            !.pagesByInclude = ClearReverse(t.pagesByInclude,
                                            MapGet(t.includesInPage, pagePath), pagePath),
            !.includesInPage = MapDelete(t.includesInPage, pagePath)]
    ELSE t

RECURSIVE PushReverse(_, _, _)
\* the loop of recordDependencies that updates the reverse mapping
PushReverse(inv, incs, pagePath) ==
    IF incs = <<>> THEN inv
    ELSE PushReverse(MapSet(inv, Head(incs),
                            Append(MapGet(inv, Head(incs)), pagePath)),
                     Tail(incs), pagePath)

\* a variant of recordDependencies that merges with the recorded edges
RecordDependencies_merge(t, pagePath, includePaths) ==
    LET old == MapGet(t.includesInPage, pagePath)
    IN  IF includePaths = <<>> THEN t
        ELSE [t EXCEPT
                !.includesInPage = MapSet(t.includesInPage, pagePath, old \o includePaths),
                !.pagesByInclude = PushReverse(t.pagesByInclude, includePaths, pagePath),
                !.knownFiles = @ \cup {pagePath} \cup Range(includePaths)]

RecordDependencies(t, pagePath, includePaths) ==
    LET c == ClearPageDependencies(t, pagePath)
        r == IF includePaths # <<>>
             THEN [c EXCEPT
                     !.includesInPage = MapSet(c.includesInPage, pagePath, includePaths),
                     !.pagesByInclude = PushReverse(c.pagesByInclude, includePaths, pagePath)]
             ELSE c
    IN  [r EXCEPT !.knownFiles = @ \cup {pagePath} \cup Range(includePaths)]

IsIncludeFile(t, filePath) == MapHas(t.pagesByInclude, filePath)

IsMainPage(t, filePath) ==
    MapHas(t.includesInPage, filePath) /\ ~MapHas(t.pagesByInclude, filePath)

RECURSIVE ExtractIncludeDependencies(_, _, _)
ExtractIncludeDependencies(matches, filePath, sourceRoot) ==
    IF matches = <<>> THEN <<>>
    ELSE LET r == ResolveIncludePath(Head(matches).a, Head(matches).p,
                                     filePath, sourceRoot)
             rest == ExtractIncludeDependencies(Tail(matches), filePath, sourceRoot)
         IN  IF r.ok THEN <<r.path>> \o rest ELSE rest

AnalyzePage(t, pagePath, htmlContent, sourceRoot) ==
    RecordDependencies(t, pagePath,
        ExtractIncludeDependencies(Matches(htmlContent), pagePath, sourceRoot))

RECURSIVE SpliceForward(_, _, _)
\* the loop of removeFile over affectedPages
SpliceForward(fwd, pages, filePath) ==
    IF pages = <<>> THEN fwd
    ELSE IF ~MapHas(fwd, Head(pages)) THEN SpliceForward(fwd, Tail(pages), filePath)
    ELSE LET includes == MapGet(fwd, Head(pages))
             index == ArrIndexOf(includes, filePath)
         IN  SpliceForward(
                 IF index > 0
                 THEN MapSet(fwd, Head(pages), RemoveAt(includes, index))
                 ELSE fwd,
                 Tail(pages), filePath)

\* a variant of removeFile that leaves the lists of the affected pages alone
RemoveFile_noSplice(t, filePath) ==
    LET c == ClearPageDependencies(t, filePath)
    IN  [c EXCEPT !.pagesByInclude = MapDelete(c.pagesByInclude, filePath),
                  !.knownFiles = @ \ {filePath}]

RemoveFile(t, filePath) ==
    LET c == ClearPageDependencies(t, filePath)
        r == IF MapHas(c.pagesByInclude, filePath)
             THEN [c EXCEPT
                     !.pagesByInclude = MapDelete(c.pagesByInclude, filePath),
                     !.includesInPage = SpliceForward(c.includesInPage,
                                            MapGet(c.pagesByInclude, filePath), filePath)]
             ELSE c
    IN  [r EXCEPT !.knownFiles = @ \ {filePath}]

ClearTracker(t) == NewTracker

\* the one element of a singleton (binds a computed value to a name once)
Only(S) == CHOOSE e \in S : TRUE

\* the JavaScript call stack: a call nested deeper than this throws RangeError
StackLimit == 16

\* the entries of includesInPage that list includePath and are include files
IncludesUsingThis(t, includePath) ==
    LET sel == SelectSeq(t.includesInPage,
                         LAMBDA e : includePath \in Range(e.v) /\ IsIncludeFile(t, e.k))
    IN  [i \in 1..Len(sel) |-> sel[i].k]

RECURSIVE GetAffectedPages(_, _, _)
RECURSIVE NestedAffected(_, _, _, _)

\* getAffectedPages(includePath) with `room` stack frames left
GetAffectedPages(t, includePath, room) ==
    IF room = 0 THEN [ok |-> FALSE, pages |-> <<>>]
    ELSE NestedAffected(t, IncludesUsingThis(t, includePath),
                        SetAddAll(<<>>, MapGet(t.pagesByInclude, includePath)), room)

\* the loop of getAffectedPages over includesUsingThis
NestedAffected(t, nested, allAffected, room) ==
    IF nested = <<>> THEN [ok |-> TRUE, pages |-> allAffected]
    ELSE Only({ IF ~r.ok THEN r
                ELSE NestedAffected(t, Tail(nested), SetAddAll(allAffected, r.pages), room)
                : r \in {GetAffectedPages(t, Head(nested), room - 1)} })

-----------------------------------------------------------------------------
(* The source tree *)

SourceRoot == <<"/", "s">>
OutputRoot == <<"/", "d">>
\* the default of isPartialFile's includesDir parameter ('includes'), and the
\* includes option of the builds modelled, which is that default
DefaultIncludesDir == <<"i">>
IncludesDir == DefaultIncludesDir

NoFile == [st |-> "missing", c |-> <<>>]
File(content) == [st |-> "file", c |-> content]

\* fs.readFile(path): the content, ENOENT for a path that does not exist, another
\* I/O error for a directory or an unreadable file
ReadFile(path) ==
    IF path \in DOMAIN fs /\ fs[path].st = "file" THEN [st |-> "ok", c |-> fs[path].c]
    ELSE IF \/ path \in DOMAIN fs /\ fs[path].st = "unreadable"
            \/ path = SourceRoot
            \/ \E f \in DOMAIN fs : fs[f].st # "missing" /\ StartsWith(f, path \o <<"/">>)
         THEN [st |-> "EIO", c |-> <<>>]
    ELSE [st |-> "ENOENT", c |-> <<>>]

-----------------------------------------------------------------------------
(* core/include-processor.js *)

MAX_INCLUDE_DEPTH == 10

NoErr == [name |-> "none", file |-> <<>>, inc |-> <<>>]
Err(name, file, inc) == [name |-> name, file |-> file, inc |-> inc]

\* a variant of DepthExceeded that is off by one
DepthExceeded_offByOne(depth) == depth >= MAX_INCLUDE_DEPTH

DepthExceeded(depth) == depth > MAX_INCLUDE_DEPTH

\* a variant of AlreadyProcessing that never finds the file
AlreadyProcessing_never(processedFiles, filePath) == FALSE

AlreadyProcessing(processedFiles, filePath) == filePath \in processedFiles

\* a variant of NewProcessedFiles that adds to the caller's Set in place
NewProcessedFiles_shared(processedFiles, filePath) ==
    [set |-> processedFiles \cup {filePath}, copied |-> FALSE]

\* new Set(processedFiles) with filePath added: a Set of its own, so what
\* the callee adds never shows in the caller's Set
NewProcessedFiles(processedFiles, filePath) ==
    [set |-> processedFiles \cup {filePath}, copied |-> TRUE]

\* a variant of CatchInclude that is the older error-comment policy
CatchInclude_comment(error, processedContent, fullMatch) ==
    IF error.name = "CircularDependencyError"
    THEN [go |-> FALSE, err |-> error, text |-> processedContent]
    ELSE [go |-> TRUE, err |-> NoErr,
          text |-> StringReplace(processedContent, fullMatch,
                                 <<[k |-> "errc", a |-> error.name, p |-> <<>>]>>)]

\* the catch block of the loop over the directives: log and re-throw
CatchInclude(error, processedContent, fullMatch) ==
    [go |-> FALSE, err |-> error, text |-> processedContent]

\* a pending processIncludes call: its file, processedContent, the directives
\* found at entry, the index of the next one, and newProcessedFiles (shared
\* says whether that Set is the caller's own)
Frame(filePath, htmlContent, np) ==
    [file |-> filePath, text |-> htmlContent, matches |-> Matches(htmlContent),
     i |-> 1, set |-> np.set, copied |-> np.copied]

NoFrame == Frame(<<>>, <<>>, [set |-> {}, copied |-> TRUE])

\* processIncludes up to the loop: the depth check, the cycle check, the Set
EnterIncludes(htmlContent, filePath, processedFiles, depth) ==
    IF DepthExceeded(depth)
    THEN [err |-> Err("MaxDepthError", filePath, <<>>), frame |-> NoFrame]
    ELSE IF AlreadyProcessing(processedFiles, filePath)
    THEN [err |-> Err("CircularDependencyError", filePath, <<>>), frame |-> NoFrame]
    ELSE [err |-> NoErr,
          frame |-> Frame(filePath, htmlContent,
                          NewProcessedFiles(processedFiles, filePath))]

-----------------------------------------------------------------------------
(* File classification and output paths                                     *)
(* (utils/path-resolver.js, core/markdown-processor.js)                     *)

\* path.basename(p)
PathBasename(p) == LET g == Split(p) IN g[Len(g)]

RECURSIVE LastIndexOf(_, _, _)
LastIndexOf(s, c, i) ==
    IF i < 1 THEN 0 ELSE IF s[i] = c THEN i ELSE LastIndexOf(s, c, i - 1)

\* path.extname(p): from the last dot of the base name, empty for a dot file
PathExtname(p) ==
    LET b == PathBasename(p)
        k == LastIndexOf(b, ".", Len(b))
    IN  IF k <= 1 THEN <<>> ELSE SubSeq(b, k, Len(b))

\* toLowerCase on the symbols used in extensions
ToLower(s) == [i \in 1..Len(s) |-> IF s[i] = "H" THEN "h"
                                   ELSE IF s[i] = "M" THEN "m" ELSE s[i]]

\* the extension ".html" is written <<".", "h">>, ".md" is <<".", "m">>
IsHtmlFile(filePath) == ToLower(PathExtname(filePath)) = <<".", "h">>

IsMarkdownFile(filePath) ==
    /\ Len(filePath) >= 2
    /\ ToLower(SubSeq(filePath, Len(filePath) - 1, Len(filePath))) = <<".", "m">>

\* str.includes(sub)
Contains(str, sub) ==
    \E i \in 1..(Len(str) - Len(sub) + 1) : SubSeq(str, i, i + Len(sub) - 1) = sub

IsPartialFile(filePath, includesDir) ==
    \/ PathBasename(PathDirname(filePath)) = includesDir
    \/ Contains(filePath, <<"/">> \o includesDir \o <<"/">>)
    \/ StartsWith(PathBasename(filePath), <<"_">>)

RECURSIVE CommonPrefix(_, _)
CommonPrefix(a, b) ==
    IF a = <<>> \/ b = <<>> \/ Head(a) # Head(b) THEN 0
    ELSE 1 + CommonPrefix(Tail(a), Tail(b))

\* path.relative(from, to) for absolute paths
PathRelative(from, to) ==
    LET f == Segs(from)
        g == Segs(to)
        c == CommonPrefix(f, g)
    IN  JoinSegs([i \in 1..(Len(f) - c) |-> <<".", ".">>] \o SubSeq(g, c + 1, Len(g)))

GetOutputPath(sourcePath, sourceRoot, outputRoot) ==
    PathResolve(outputRoot, PathRelative(sourceRoot, sourcePath))

\* getOutputPathWithPrettyUrls without pretty URLs: .md becomes .html
MarkdownOutputPath(filePath, sourceRoot, outputRoot) ==
    LET rel == PathRelative(sourceRoot, filePath)
    IN  PathResolve(outputRoot, SubSeq(rel, 1, Len(rel) - 1) \o <<"h">>)

\* path.basename(p, ext)
PathBasenameExt(p, ext) ==
    LET b == PathBasename(p)
    IN  IF ext # <<>> /\ Len(b) > Len(ext) /\ SubSeq(b, Len(b) - Len(ext) + 1, Len(b)) = ext
        THEN SubSeq(b, 1, Len(b) - Len(ext))
        ELSE b

\* getOutputPathWithPrettyUrls; path.join(outputRoot, ...) of relative parts
\* is path.resolve(outputRoot, part/part/...) for the absolute outputRoot
GetOutputPathWithPrettyUrls(filePath, sourceRoot, outputRoot, prettyUrls) ==
    LET relativePath == PathRelative(sourceRoot, filePath)
        nameWithoutExt == PathBasenameExt(relativePath, PathExtname(relativePath))
        dir == PathDirname(relativePath)
    IN  IF prettyUrls /\ IsMarkdownFile(filePath)
        THEN IF nameWithoutExt = <<"index">>
             THEN PathResolve(outputRoot, dir \o <<"/", "index", ".", "h">>)
             ELSE PathResolve(outputRoot,
                              dir \o <<"/">> \o nameWithoutExt \o <<"/", "index", ".", "h">>)
        ELSE IF IsMarkdownFile(filePath)
        THEN MarkdownOutputPath(filePath, sourceRoot, outputRoot)
        ELSE GetOutputPath(filePath, sourceRoot, outputRoot)

\* processMarkdown and the default page frame around its result.  What
\* markdown-it does to the text is outside this model; the frame is kept.
MarkdownPage(text) == <<Chr("<html>")>> \o text \o <<Chr("</html>")>>

-----------------------------------------------------------------------------
(* core/asset-tracker.js *)

\* one asset reference <source src="p">: the pattern that takes any path
Ref(path) == [k |-> "ref", a |-> "src", p |-> path]

\* path.join(a, b) for an absolute a and a b that does not begin with a slash:
\* the normalized a + "/" + b, a trailing slash of b kept
PathJoin(a, b) ==
    IF b = <<>> THEN PathResolve(a, <<>>)
    ELSE LET segs == Segs(a \o <<"/">> \o b)
         IN  <<"/">> \o JoinSegs(segs)
             \o (IF b[Len(b)] = "/" /\ segs # <<>> THEN <<"/">> ELSE <<>>)

NoPath == [ok |-> FALSE, path |-> <<>>]

\* resolveAssetPath: the path, or null for one that path.relative starts
\* with "../"
ResolveAssetPath(assetPath, pagePath, sourceRoot) ==
    LET resolvedPath == IF StartsWith(assetPath, <<"/">>)
                        THEN PathJoin(sourceRoot, Tail(assetPath))
                        ELSE PathResolve(PathDirname(pagePath), assetPath)
        relativePath == PathRelative(sourceRoot, resolvedPath)
    IN  IF StartsWith(relativePath, <<".", ".", "/">>) THEN NoPath
        ELSE [ok |-> TRUE, path |-> resolvedPath]

\* the tests of extractAssetReferences that skip external and data URLs
IsExternalUrl(assetPath) ==
    \/ StartsWith(assetPath, <<"http:", "/", "/">>)
    \/ StartsWith(assetPath, <<"https:", "/", "/">>)
    \/ StartsWith(assetPath, <<"/", "/">>)

IsDataUrl(assetPath) == StartsWith(assetPath, <<"data:">>)

RECURSIVE ExtractRefs(_, _, _, _)
\* the loop of extractAssetReferences over the matches
ExtractRefs(refs, pagePath, sourceRoot, references) ==
    IF refs = <<>> THEN references
    ELSE LET assetPath == Head(refs).p
             r == ResolveAssetPath(assetPath, pagePath, sourceRoot)
         IN  ExtractRefs(Tail(refs), pagePath, sourceRoot,
                 IF IsExternalUrl(assetPath) \/ IsDataUrl(assetPath) \/ ~r.ok
                 THEN references
                 ELSE SetAdd(references, r.path))

ExtractAssetReferences(htmlContent, pagePath, sourceRoot) ==
    ExtractRefs(SelectSeq(htmlContent, LAMBDA tok : tok.k = "ref"),
                pagePath, sourceRoot, <<>>)

NewAssetTracker ==
    [assetReferences |-> <<>>, referencedAssets |-> {}, htmlAssetCache |-> <<>>]

RECURSIVE ClearCached(_, _, _)
\* the loop of clearPageAssetReferences over cachedAssets
ClearCached(t, cachedAssets, pagePath) ==
    IF cachedAssets = <<>> THEN t
    ELSE LET assetPath == Head(cachedAssets)
         IN  IF ~MapHas(t.assetReferences, assetPath)
             THEN ClearCached(t, Tail(cachedAssets), pagePath)
             ELSE LET pages == MapGet(t.assetReferences, assetPath)
                      index == ArrIndexOf(pages, pagePath)
                      spliced == IF index > 0 THEN RemoveAt(pages, index) ELSE pages
                  IN  ClearCached(
                          IF spliced = <<>>
                          THEN [t EXCEPT
                                  !.assetReferences = MapDelete(@, assetPath),
                                  !.referencedAssets = @ \ {assetPath}]
                          ELSE [t EXCEPT
                                  !.assetReferences = MapSet(@, assetPath, spliced)],
                          Tail(cachedAssets), pagePath)

ClearPageAssetReferences(t, pagePath) ==
    IF MapHas(t.htmlAssetCache, pagePath)
    THEN [ClearCached(t, MapGet(t.htmlAssetCache, pagePath), pagePath)
             EXCEPT !.htmlAssetCache = MapDelete(@, pagePath)]
    ELSE t

RECURSIVE PushAssets(_, _, _)
\* the loop of recordAssetReferences over the extracted assets
PushAssets(t, assets, pagePath) ==
    IF assets = <<>> THEN t
    ELSE PushAssets(
             [t EXCEPT
                !.assetReferences =
                    MapSet(@, Head(assets), Append(MapGet(@, Head(assets)), pagePath)),
                !.referencedAssets = @ \cup {Head(assets)}],
             Tail(assets), pagePath)

\* a variant of recordAssetReferences that keeps what the page had recorded
RecordAssetReferences_keep(t, pagePath, htmlContent, sourceRoot) ==
    LET assets == ExtractAssetReferences(htmlContent, pagePath, sourceRoot)
    IN  [PushAssets(t, assets, pagePath)
            EXCEPT !.htmlAssetCache = MapSet(@, pagePath, assets)]

RecordAssetReferences(t, pagePath, htmlContent, sourceRoot) ==
    LET assets == ExtractAssetReferences(htmlContent, pagePath, sourceRoot)
    IN  [PushAssets(ClearPageAssetReferences(t, pagePath), assets, pagePath)
            EXCEPT !.htmlAssetCache = MapSet(@, pagePath, assets)]

IsAssetReferenced(t, assetPath) == assetPath \in t.referencedAssets

GetPagesThatReference(t, assetPath) == MapGet(t.assetReferences, assetPath)

RemovePage(t, pagePath) == ClearPageAssetReferences(t, pagePath)

ClearAssetTracker(t) == NewAssetTracker

-----------------------------------------------------------------------------
(* The path resolver called on its own: the arguments are drawn in Init,    *)
(* Resolve makes the call.                                                  *)

PathSyms == {"/", ".", "s", "o"}

RawPaths == UNION {[1..n -> PathSyms] : n \in 0..MaxRawLen}

\* source roots and, for each, a file below it that holds the directive
RootAndFile ==
    { << <<"/", "s">>,           <<"/", "s", "/", "o">> >>,
      << <<"/", "s">>,           <<"/", "s", "/", "s", "/", "o">> >>,
      << <<"/", "s", "/", "o">>, <<"/", "s", "/", "o", "/", "s">> >>,
      << <<"/">>,                <<"/", "o">> >> }

IncludeTypes == {"file", "virtual", "FILE"}

NoResult == [done |-> FALSE, res |-> Throw("none")]

InitPath ==
    /\ \E raw \in RawPaths, ty \in IncludeTypes, rf \in RootAndFile :
          rin = [type |-> ty, includePath |-> raw,
                 sourceRoot |-> rf[1], currentFilePath |-> rf[2]]
    /\ rout = NoResult

Resolve ==
    /\ ~rout.done
    /\ rout' = [done |-> TRUE,
                res |-> ResolveIncludePath(rin.type, rin.includePath,
                                           rin.currentFilePath, rin.sourceRoot)]
    /\ UNCHANGED <<rin, buildVars, watchVars, depVars, assetVars>>

-----------------------------------------------------------------------------
(* The output layout called on its own: the output paths of two source files *)

\* source files that are no partials: pages, markdown pages, assets
OutSources ==
    { <<"/", "s", "/", "a", ".", "h">>,
      <<"/", "s", "/", "a", ".", "m">>,
      <<"/", "s", "/", "a", ".", "M">>,
      <<"/", "s", "/", "a">>,
      <<"/", "s", "/", "a", "/", "index", ".", "h">>,
      <<"/", "s", "/", "a", "/", "index", ".", "m">>,
      <<"/", "s", "/", "index", ".", "h">>,
      <<"/", "s", "/", "index", ".", "m">>,
      <<"/", "s", "/", "b", "/", "a", ".", "m">>,
      <<"/", "s", "/", "b", "/", "a">> }

InitOut ==
    /\ \E p \in OutSources, q \in OutSources, pretty \in BOOLEAN :
          rin = [first |-> p, second |-> q, prettyUrls |-> pretty]
    /\ rout = [done |-> FALSE, first |-> <<>>, second |-> <<>>]

\* a build maps both files to their output paths
MapToOutput ==
    /\ ~rout.done
    /\ rout' = [done |-> TRUE,
                first |-> GetOutputPathWithPrettyUrls(rin.first, <<"/", "s">>,
                                                      <<"/", "d">>, rin.prettyUrls),
                second |-> GetOutputPathWithPrettyUrls(rin.second, <<"/", "s">>,
                                                       <<"/", "d">>, rin.prettyUrls)]
    /\ UNCHANGED <<rin, buildVars, watchVars, depVars, assetVars>>

-----------------------------------------------------------------------------
(* server/dev-server.js: handleRequest, for a request that is not the       *)
(* live-reload endpoint.  A file of the disk stands for its own content.    *)

Forbidden == [status |-> 403, file |-> <<>>, listing |-> <<>>]
NotFound == [status |-> 404, file |-> <<>>, listing |-> <<>>]
Served(f) == [status |-> 200, file |-> f, listing |-> <<>>]
Listed(dir) == [status |-> 200, file |-> <<>>, listing |-> dir]

\* fs.stat(p).isDirectory() on a disk given as its set of files
IsDirectory(disk, p) == \E f \in disk : StartsWith(f, p \o <<"/">>)

HandleRequest(pathname, outputRoot, disk) ==
    LET filePath == PathJoin(outputRoot,
                             IF pathname = <<"/">> THEN <<"/", "index", ".", "h">>
                             ELSE pathname)
        resolvedPath == PathResolve(filePath, <<>>)
        resolvedRoot == PathResolve(outputRoot, <<>>)
        indexPath == PathJoin(resolvedPath, <<"index", ".", "h">>)
    IN  IF ~StartsWith(resolvedPath, resolvedRoot) THEN Forbidden
        ELSE IF IsDirectory(disk, resolvedPath)
        THEN (IF indexPath \in disk THEN Served(indexPath) ELSE Listed(resolvedPath))
        ELSE IF resolvedPath \in disk THEN Served(resolvedPath)
        ELSE NotFound

\* the files a disk may hold: in the output directory /d, in the directory
\* /d2 next to it, in another directory and in the source directory
ServeFiles ==
    { <<"/", "d", "/", "a", ".", "h">>,
      <<"/", "d", "/", "index", ".", "h">>,
      <<"/", "d", "/", "b", "/", "c">>,
      <<"/", "d", "2", "/", "a", ".", "h">>,
      <<"/", "e", "/", "a", ".", "h">>,
      <<"/", "s", "/", "a", ".", "h">> }

\* the paths of requests
Pathnames ==
    { <<"/">>,
      <<"/", "a", ".", "h">>,
      <<"/", "b">>,
      <<"/", "b", "/", "c">>,
      <<"/", "b", "/", ".", ".", "/", "a", ".", "h">>,
      <<"/", "z">>,
      <<"/", ".", ".">>,
      <<"/", ".", ".", "/", "d", "/", "a", ".", "h">>,
      <<"/", ".", ".", "/", "d", "2", "/", "a", ".", "h">>,
      <<"/", ".", ".", "/", "d", "2">>,
      <<"/", ".", ".", "/", "e", "/", "a", ".", "h">>,
      <<"/", ".", ".", "/", "s", "/", "a", ".", "h">> }

InitServe ==
    /\ \E pathname \in Pathnames, disk \in SUBSET ServeFiles :
          rin = [pathname |-> pathname, outputRoot |-> <<"/", "d">>, disk |-> disk]
    /\ rout = [done |-> FALSE, res |-> NotFound]

\* the server answers the request
Respond ==
    /\ ~rout.done
    /\ rout' = [done |-> TRUE, res |-> HandleRequest(rin.pathname, rin.outputRoot, rin.disk)]
    /\ UNCHANGED <<rin, buildVars, watchVars, depVars, assetVars>>

-----------------------------------------------------------------------------
(* Source trees *)

FA == <<"/", "s", "/", "a", ".", "h">>              \* a page
FB == <<"/", "s", "/", "b", ".", "h">>              \* a page
FC == <<"/", "s", "/", "i", "/", "c", ".", "h">>    \* a partial
FD == <<"/", "s", "/", "i", "/", "d", ".", "h">>    \* a partial
FE == <<"/", "s", "/", "e", ".", "m">>              \* a markdown page
FG == <<"/", "s", "/", "c">>                        \* an asset
FM == <<"/", "s", "/", "i", "/", "e", ".", "m">>    \* a markdown file among the partials

\* where the page FA is written; an entry of the file system here says that
\* writing the page fails
OutFA == <<"/", "d", "/", "a", ".", "h">>

\* the pages of a chain: K(n) includes K(n + 1)
K(n) == <<"/", "s", "/", ToString(n), ".", "h">>
KName(n) == <<ToString(n), ".", "h">>

AllPaths == {FA, FB, FC, FD, FE, FG, FM, OutFA} \cup {K(n) : n \in 0..MaxChain}

\* the order in which scanDirectory lists the files that exist
ScanOrder == <<FA, FB, FG, FE, FC, FD, FM>> \o [i \in 1..(MaxChain + 1) |-> K(i - 1)]

x == Chr("x")
y == Chr("y")
dollar == Chr("$")

ContentsA ==
    { File(<<x, Inc("virtual", <<"/", "i", "/", "c", ".", "h">>), y>>),
      File(<<Inc("file", <<"i", "/", "c", ".", "h">>), x,
             Inc("file", <<"i", "/", "c", ".", "h">>)>>),
      File(<<Inc("virtual", <<"/", "i", "/", "c", ".", "h">>),
             Inc("file", <<".", "/", "i", "/", "d", ".", "h">>)>>),
      File(<<Inc("virtual", <<"i", "/", "c", ".", "h">>), Inc("file", <<"z", ".", "h">>)>>),
      File(<<x, Inc("file", <<".", ".", "/", "e">>)>>),
      File(<<Inc("file", <<"b", ".", "h">>)>>) }

ContentsB ==
    { NoFile,
      File(<<y>>),
      File(<<Inc("file", <<"a", ".", "h">>)>>) }

ContentsC ==
    { File(<<x>>),
      File(<<y, Inc("file", <<"d", ".", "h">>)>>),
      File(<<Inc("file", <<"c", ".", "h">>)>>),
      File(<<Inc("virtual", <<"/", "a", ".", "h">>)>>),
      File(<<Inc("file", <<".", ".", "/", "z", ".", "h">>)>>),
      File(<<dollar, Chr("&")>>),
      [st |-> "unreadable", c |-> <<>>] }

ContentsD ==
    { NoFile,
      File(<<x>>),
      File(<<dollar, dollar>>),
      File(<<y, dollar, Chr("'")>>),
      File(<<Inc("file", <<"c", ".", "h">>)>>) }

ContentsE ==
    { NoFile,
      File(<<x>>),
      File(<<Inc("virtual", <<"/", "i", "/", "c", ".", "h">>)>>) }

SmallTrees ==
    { [p \in AllPaths |->
          IF p = FA THEN a ELSE IF p = FB THEN b ELSE IF p = FC THEN c
          ELSE IF p = FD THEN d ELSE IF p = FE THEN e ELSE NoFile]
      : a \in ContentsA, b \in ContentsB, c \in ContentsC, d \in ContentsD,
        e \in ContentsE }

\* trees with an asset: pages, a partial and markdown files that refer to it
\* or not, a page that fails in an include, a page that cannot be written
AssetTrees ==
    { [p \in AllPaths |->
          IF p = FA THEN a ELSE IF p = FB THEN b ELSE IF p = FC THEN c
          ELSE IF p = FE THEN e ELSE IF p = FG THEN g ELSE IF p = FM THEN m
          ELSE IF p = OutFA THEN w ELSE NoFile]
      : a \in { File(<<x, Ref(<<"c">>)>>),
                File(<<x>>),
                File(<<Inc("file", <<"i", "/", "c", ".", "h">>)>>),
                File(<<Ref(<<"c">>), Inc("file", <<"z", ".", "h">>)>>),
                File(<<Inc("VIRTUAL", <<"/", "i", "/", "c", ".", "h">>), x>>) },
        b \in { NoFile, File(<<Ref(<<"/", "c">>)>>), File(<<y>>) },
        c \in { NoFile, File(<<y, Ref(<<"c">>)>>), File(<<y>>) },
        e \in { NoFile, File(<<Ref(<<"c">>)>>) },
        g \in { NoFile, File(<<x>>) },
        m \in { NoFile, File(<<y>>) },
        w \in { NoFile, [st |-> "unwritable", c |-> <<>>] } }

\* K(0) .. K(n), each including the next; K(n) is a leaf (back = -1) or
\* includes K(back)
ChainTree(n, back) ==
    [p \in AllPaths |->
        IF \E i \in 0..(n - 1) : p = K(i)
        THEN File(<<x, Inc("file", KName((CHOOSE i \in 0..(n - 1) : p = K(i)) + 1))>>)
        ELSE IF p = K(n)
        THEN (IF back = -1 THEN File(<<y>>) ELSE File(<<Inc("file", KName(back)), y>>))
        ELSE NoFile]

ChainTrees == {ChainTree(n, back) : n \in 0..MaxChain, back \in -1..MaxChain}

-----------------------------------------------------------------------------
(* core/file-processor.js: build().  processHtmlFile, processMarkdownFile   *)
(* and processIncludes are asynchronous: the build advances one file read   *)
(* or one return at a time, and nothing else runs in between.               *)

ZeroResults == [processed |-> 0, copied |-> 0, skipped |-> 0, errors |-> <<>>]
NoLast == [file |-> <<>>, kind |-> "none", err |-> NoErr, text |-> <<>>]
NoAffected == [file |-> <<>>, asked |-> FALSE, res |-> [ok |-> TRUE, pages |-> <<>>]]
NoJob == [file |-> <<>>, kind |-> "none"]
EmptyTree == [p \in {} |-> <<>>]
NoOutcome == [kind |-> "none"]
NoInc ==
    [changed |-> <<>>, event |-> "none", planned |-> [ok |-> TRUE, files |-> <<>>], fallback |-> FALSE,
     output |-> EmptyTree, dt |-> NewTracker, at |-> NewAssetTracker]

\* watch() before its initial build: `current` says that the watcher's
\* dependencyTracker and assetTracker are the trackers of the build under way
\* or last run (dt and at); otherwise they are the two kept here
NoWatch == [on |-> FALSE, current |-> TRUE, dependencyTracker |-> NewTracker,
            assetTracker |-> NewAssetTracker]

\* scanDirectory(sourceRoot)
ScanDirectory == SelectSeq(ScanOrder, LAMBDA p : fs[p].st # "missing")

\* the files the content loop does something with, and assetFiles
ContentFiles == SelectSeq(ScanDirectory, LAMBDA p : IsHtmlFile(p) \/ IsMarkdownFile(p))
AssetFiles == SelectSeq(ScanDirectory, LAMBDA p : ~IsHtmlFile(p) /\ ~IsMarkdownFile(p))

\* fs.writeFile(out) fails
WriteFails(out) == out \in DOMAIN fs /\ fs[out].st = "unwritable"

InitBuild ==
    /\ fs \in SmallTrees \cup ChainTrees \cup AssetTrees
    /\ phase = "idle"
    /\ todo = <<>>
    /\ job = NoJob
    /\ calls = <<>>
    /\ exc = NoErr
    /\ dt = NewTracker
    /\ output = EmptyTree
    /\ results = ZeroResults
    /\ last = NoLast
    /\ affected = NoAffected
    /\ at = NewAssetTracker
    /\ outcome = NoOutcome
    /\ incr = NoInc

\* build() up to the content loop: output cleaned, fresh tracker, scan
StartBuild ==
    /\ phase = "idle"
    /\ phase' = "content"
    /\ todo' = ContentFiles
    /\ dt' = NewTracker
    /\ at' = NewAssetTracker
    /\ output' = EmptyTree
    /\ results' = ZeroResults
    /\ outcome' = NoOutcome
    /\ UNCHANGED <<fs, job, calls, exc, last, affected, incr, watchVars, pathVars, depVars, assetVars>>

\* one round of the content loop: a partial is skipped
SkipPartial ==
    /\ phase = "content" /\ todo # <<>> /\ job = NoJob
    /\ IsHtmlFile(Head(todo)) /\ IsPartialFile(Head(todo), IncludesDir)
    /\ results' = [results EXCEPT !.skipped = @ + 1]
    /\ todo' = Tail(todo)
    /\ UNCHANGED <<fs, phase, job, calls, exc, dt, output, last, affected, watchVars, pathVars,
                   depVars, assetVars, runVars>>

\* the end of a round of the content loop: filePath was written to `out` with
\* `text` and counted, or its error was collected
Account(filePath, kind, error, text, out) ==
    /\ last' = [file |-> filePath, kind |-> kind, err |-> error, text |-> text]
    /\ IF error = NoErr
       THEN /\ output' = [q \in DOMAIN output \cup {out} |->
                             IF q = out THEN text ELSE output[q]]
            /\ results' = [results EXCEPT !.processed = @ + 1]
       ELSE /\ output' = output
            /\ results' = [results EXCEPT
                             !.errors = Append(@, [file |-> filePath, error |-> error])]
    /\ todo' = Tail(todo)

\* a round of the content loop begins with a content file: it is read, an
\* HTML page is analysed by the tracker, and processIncludes is entered with
\* an empty Set at depth 0 (a markdown file gets no tracker)
BeginPage(kind) ==
    /\ phase \in {"content", "rebuild"} /\ todo # <<>> /\ job = NoJob
    /\ LET filePath == Head(todo)
           rd == ReadFile(filePath)
           e == EnterIncludes(rd.c, filePath, {}, 0)
       IN  IF rd.st # "ok"
           THEN /\ Account(filePath, kind, Err("FileSystemError", filePath, <<>>),
                           <<>>, <<>>)
                /\ UNCHANGED <<job, calls, exc, dt>>
           ELSE /\ dt' = IF kind = "html"
                         THEN AnalyzePage(dt, filePath, rd.c, SourceRoot)
                         ELSE dt
                /\ job' = [file |-> filePath, kind |-> kind]
                /\ calls' = IF e.err = NoErr THEN <<e.frame>> ELSE <<>>
                /\ exc' = e.err
                /\ UNCHANGED <<todo, output, results, last>>
    /\ UNCHANGED <<fs, phase, affected, watchVars, pathVars, depVars, assetVars, runVars>>

BeginHtmlPage ==
    /\ todo # <<>>
    /\ IsHtmlFile(Head(todo)) /\ ~IsPartialFile(Head(todo), IncludesDir)
    /\ BeginPage("html")

BeginMarkdownPage ==
    /\ todo # <<>>
    /\ ~IsHtmlFile(Head(todo)) /\ IsMarkdownFile(Head(todo))
    /\ BeginPage("markdown")

\* the innermost pending processIncludes call, and the calls without it
Top == calls[Len(calls)]
Pop == SubSeq(calls, 1, Len(calls) - 1)

\* `error` reaches the catch block of the innermost pending call, thrown by
\* the directive that call is at
Caught(error) ==
    LET c == CatchInclude(error, Top.text, Top.matches[Top.i])
    IN  IF c.go
        THEN /\ calls' = [calls EXCEPT ![Len(calls)] =
                             [Top EXCEPT !.text = c.text, !.i = Top.i + 1]]
             /\ exc' = NoErr
        ELSE /\ calls' = Pop
             /\ exc' = c.err

\* the loop of processIncludes at its next directive: the path is resolved,
\* the file read and analysed by the tracker, and processIncludes entered for
\* it one level deeper with this call's Set
IncludeStep ==
    /\ job # NoJob /\ exc = NoErr /\ calls # <<>>
    /\ Top.i <= Len(Top.matches)
    /\ LET fullMatch == Top.matches[Top.i]
           resolved == ResolveIncludePath(fullMatch.a, fullMatch.p, Top.file, SourceRoot)
           rd == ReadFile(resolved.path)
           e == EnterIncludes(rd.c, resolved.path, Top.set, Len(calls))
       IN  IF ~resolved.ok
           THEN Caught(Err(resolved.err, Top.file, fullMatch.p)) /\ dt' = dt
           ELSE IF rd.st = "ENOENT"
           THEN Caught(Err("IncludeNotFoundError", Top.file, fullMatch.p)) /\ dt' = dt
           ELSE IF rd.st # "ok"
           THEN Caught(Err("FileSystemError", resolved.path, <<>>)) /\ dt' = dt
           ELSE /\ dt' = IF job.kind = "html"
                         THEN AnalyzePage(dt, resolved.path, rd.c, SourceRoot)
                         ELSE dt
                /\ IF e.err = NoErr
                   THEN calls' = Append(calls, e.frame) /\ exc' = NoErr
                   ELSE Caught(e.err)
    /\ UNCHANGED <<fs, phase, todo, job, output, results, last, affected, watchVars, pathVars,
                   depVars, assetVars, runVars>>

\* a nested processIncludes call returns: the caller replaces the directive
\* by the returned content and moves to its next directive
ReturnStep ==
    /\ job # NoJob /\ exc = NoErr /\ Len(calls) >= 2
    /\ Top.i > Len(Top.matches)
    /\ LET caller == calls[Len(calls) - 1]
       IN  calls' = [Pop EXCEPT ![Len(calls) - 1] =
                        [caller EXCEPT
                            !.text = StringReplace(caller.text, caller.matches[caller.i],
                                                   Top.text),
                            !.i = caller.i + 1,
                            !.set = IF Top.copied THEN caller.set ELSE Top.set]]
    /\ UNCHANGED <<fs, phase, todo, job, exc, dt, output, results, last, affected,
                   watchVars, pathVars, depVars, assetVars, runVars>>

\* an error re-thrown by a nested call reaches the catch block of its caller
Rethrow ==
    /\ job # NoJob /\ exc # NoErr /\ calls # <<>>
    /\ Caught(exc)
    /\ UNCHANGED <<fs, phase, todo, job, dt, output, results, last, affected, watchVars, pathVars,
                   depVars, assetVars, runVars>>

\* the outermost processIncludes call returns: the asset tracker records the
\* references of the final content, then the page is written and counted, or
\* the write fails
CompletePage ==
    /\ job.kind \in {"html", "markdown"} /\ exc = NoErr /\ Len(calls) = 1
    /\ Top.i > Len(Top.matches)
    /\ LET finalContent == IF job.kind = "html" THEN Top.text ELSE MarkdownPage(Top.text)
           outputPath == IF job.kind = "html"
                         THEN GetOutputPath(job.file, SourceRoot, OutputRoot)
                         ELSE MarkdownOutputPath(job.file, SourceRoot, OutputRoot)
       IN  /\ at' = RecordAssetReferences(at, job.file, finalContent, SourceRoot)
           /\ IF WriteFails(outputPath)
              THEN Account(job.file, job.kind, Err("FileSystemError", outputPath, <<>>),
                           <<>>, <<>>)
              ELSE Account(job.file, job.kind, NoErr, finalContent, outputPath)
           /\ cache' = IF phase = "rebuild" /\ ~WriteFails(outputPath)
                       THEN CacheAfter(job.file) ELSE cache
    /\ job' = NoJob
    /\ calls' = <<>>
    /\ UNCHANGED <<fs, phase, exc, dt, affected, outcome, incr, mtime, watch, pathVars,
                   depVars, assetVars>>

\* a variant of the content loop that gives up at the first error
FailPage_abort ==
    /\ job.kind \in {"html", "markdown"} /\ exc # NoErr /\ calls = <<>>
    /\ last' = [file |-> job.file, kind |-> job.kind, err |-> exc, text |-> <<>>]
    /\ results' = [results EXCEPT
                     !.errors = Append(@, [file |-> job.file, error |-> exc])]
    /\ todo' = <<>>
    /\ job' = NoJob
    /\ exc' = NoErr
    /\ UNCHANGED <<fs, phase, calls, dt, output, affected, watchVars, pathVars, depVars, assetVars,
                   runVars>>

\* the error leaves processIncludes: the content loop collects it
FailPage ==
    /\ job.kind \in {"html", "markdown"} /\ exc # NoErr /\ calls = <<>>
    /\ Account(job.file, job.kind, exc, <<>>, <<>>)
    /\ job' = NoJob
    /\ exc' = NoErr
    /\ UNCHANGED <<fs, phase, calls, dt, affected, watchVars, pathVars, depVars, assetVars, runVars>>

\* a variant of build() that starts the asset loop between two content files
BeginAssets_early ==
    /\ phase = "content" /\ job = NoJob
    /\ phase' = "assets"
    /\ todo' = AssetFiles
    /\ UNCHANGED <<fs, job, calls, exc, dt, output, results, last, affected, watchVars,
                   pathVars, depVars, assetVars, runVars>>

\* the content loop is over: the asset loop begins
BeginAssets ==
    /\ phase = "content" /\ todo = <<>> /\ job = NoJob
    /\ phase' = "assets"
    /\ todo' = AssetFiles
    /\ UNCHANGED <<fs, job, calls, exc, dt, output, results, last, affected, watchVars, pathVars,
                   depVars, assetVars, runVars>>

\* a variant of the asset loop that does not count the assets it skips
AssetStep_uncounted ==
    /\ phase = "assets" /\ todo # <<>>
    /\ LET filePath == Head(todo)
           outputPath == GetOutputPath(filePath, SourceRoot, OutputRoot)
       IN  IF IsAssetReferenced(at, filePath)
           THEN /\ output' = [q \in DOMAIN output \cup {outputPath} |->
                                 IF q = outputPath THEN fs[filePath].c ELSE output[q]]
                /\ results' = [results EXCEPT !.copied = @ + 1]
           ELSE /\ output' = output
                /\ results' = results
    /\ todo' = Tail(todo)
    /\ UNCHANGED <<fs, phase, job, calls, exc, dt, last, affected, watchVars, pathVars,
                   depVars, assetVars, runVars>>

\* one round of the asset loop: a referenced asset is copied, another skipped
AssetStep ==
    /\ phase = "assets" /\ todo # <<>>
    /\ LET filePath == Head(todo)
           outputPath == GetOutputPath(filePath, SourceRoot, OutputRoot)
       IN  IF IsAssetReferenced(at, filePath)
           THEN /\ output' = [q \in DOMAIN output \cup {outputPath} |->
                                 IF q = outputPath THEN fs[filePath].c ELSE output[q]]
                /\ results' = [results EXCEPT !.copied = @ + 1]
           ELSE /\ output' = output
                /\ results' = [results EXCEPT !.skipped = @ + 1]
    /\ todo' = Tail(todo)
    /\ UNCHANGED <<fs, phase, job, calls, exc, dt, last, affected, watchVars, pathVars, depVars,
                   assetVars, runVars>>

\* the outcome of a build with these results: BuildError, whose message has
\* the number of errors and whose cause is the list of them, or the result
Outcome(res) ==
    IF res.errors # <<>>
    THEN [kind |-> "BuildError", message |-> Len(res.errors), cause |-> res.errors]
    ELSE [kind |-> "result", processed |-> res.processed, copied |-> res.copied,
          skipped |-> res.skipped, errors |-> res.errors]

\* the end of build(): BuildError when an error was collected
FinishBuild ==
    /\ phase = "assets" /\ todo = <<>>
    /\ phase' = IF results.errors # <<>> THEN "failed" ELSE "done"
    /\ outcome' = Outcome(results)
    /\ UNCHANGED <<fs, todo, job, calls, exc, dt, output, results, last, affected, at,
                   incr, watchVars, pathVars, depVars, assetVars>>

\* the tracker a build returned is asked which pages a file affects
QueryAffected(f) ==
    /\ phase = "done"
    /\ ~affected.asked
    /\ affected' = [file |-> f, asked |-> TRUE, res |-> GetAffectedPages(dt, f, StackLimit)]
    /\ UNCHANGED <<fs, phase, todo, job, calls, exc, dt, output, results, last, watchVars, pathVars,
                   depVars, assetVars, runVars>>

NextBuild ==
    \/ StartBuild
    \/ SkipPartial
    \/ BeginHtmlPage
    \/ BeginMarkdownPage
    \/ IncludeStep
    \/ ReturnStep
    \/ Rethrow
    \/ CompletePage
    \/ FailPage
    \/ BeginAssets
    \/ AssetStep
    \/ FinishBuild
    \/ \E f \in AllPaths : QueryAffected(f)

-----------------------------------------------------------------------------
(* core/file-processor.js: what the full build and the incremental build    *)
(* take a source file for, under an includes option.  rin holds the file    *)
(* and the option, rout the two answers.                                    *)

\* the content loop and the asset filter of build()
BuildClass(filePath, includes) ==
    IF IsHtmlFile(filePath)
    THEN (IF IsPartialFile(filePath, includes) THEN "partial" ELSE "page")
    ELSE IF IsMarkdownFile(filePath) THEN "page"
    ELSE "asset"

\* getFilesToRebuild for the changed file, then the rebuild loop of
\* incrementalBuild for the file when it is planned; "none" for a planned
\* file the loop neither processes nor counts
ChangeClass(filePath, includes) ==
    IF IsHtmlFile(filePath) /\ IsPartialFile(filePath, DefaultIncludesDir) THEN "partial"
    ELSE IF IsHtmlFile(filePath)
    THEN (IF IsPartialFile(filePath, includes) THEN "none" ELSE "page")
    ELSE IF IsMarkdownFile(filePath) THEN "page"
    ELSE "asset"

ClassFiles ==
    { <<"/", "s", "/", "a", ".", "h">>,
      <<"/", "s", "/", "_", "a", ".", "h">>,
      <<"/", "s", "/", "a", ".", "m">>,
      <<"/", "s", "/", "_", "a", ".", "m">>,
      <<"/", "s", "/", "c">>,
      <<"/", "s", "/", "i", "/", "c", ".", "h">>,
      <<"/", "s", "/", "i", "/", "e", ".", "m">>,
      <<"/", "s", "/", "i", "/", "c">>,
      <<"/", "s", "/", "i", "/", "b", "/", "c", ".", "h">>,
      <<"/", "s", "/", "b", "/", "i", "/", "c", ".", "h">>,
      <<"/", "s", "/", "p", "/", "c", ".", "h">>,
      <<"/", "s", "/", "p", "/", "e", ".", "m">>,
      <<"/", "s", "/", "p", "/", "c">>,
      <<"/", "s", "/", "p", "/", "b", "/", "c", ".", "h">>,
      <<"/", "s", "/", "b", "/", "p", "/", "c", ".", "h">>,
      <<"/", "s", "/", "b", "/", "c", ".", "h">>,
      <<"/", "s", "/", "b", "/", "_", "c", ".", "h">>,
      <<"/", "s", "/", "p", "/", "i", "/", "c", ".", "h">> }

\* the includes option: the default, and two other directory names
ClassIncludes == { DefaultIncludesDir, <<"p">>, <<"b">> }

InitClass ==
    /\ \E f \in ClassFiles, d \in ClassIncludes : rin = [file |-> f, includes |-> d]
    /\ rout = [done |-> FALSE, build |-> "none", change |-> "none"]

\* the file is built by build() and, when it changes, by incrementalBuild()
Classify ==
    /\ ~rout.done
    /\ rout' = [done |-> TRUE, build |-> BuildClass(rin.file, rin.includes),
                change |-> ChangeClass(rin.file, rin.includes)]
    /\ UNCHANGED <<rin, buildVars, watchVars, depVars, assetVars>>

-----------------------------------------------------------------------------
(* core/file-processor.js: incrementalBuild(), called by the watcher of     *)
(* core/file-watcher.js with the trackers of the build before it, and the   *)
(* watcher's full build when it throws.                                     *)

\* a variant of getFilesToRebuild that has every page rebuilt
GetFilesToRebuild_all(changedFile) ==
    [ok |-> TRUE,
     files |-> SelectSeq(ContentFiles, LAMBDA p : ~IsPartialFile(p, IncludesDir))]

\* getFilesToRebuild(sourceRoot, changedFile, dependencyTracker) with a
\* changedFile.  DependencyTracker has no method getDependentPages: the call
\* for a partial throws TypeError.
GetFilesToRebuild(changedFile) ==
    IF IsHtmlFile(changedFile) /\ IsPartialFile(changedFile, DefaultIncludesDir)
    THEN [ok |-> FALSE, files |-> <<>>]
    ELSE [ok |-> TRUE, files |-> <<changedFile>>]

\* trees for the watcher: pages a.h and b.h, the partial i/c.h that may
\* include i/d.h, a markdown page and an asset
IncrTrees ==
    { [p \in AllPaths |->
          IF p = FA THEN a ELSE IF p = FB THEN b ELSE IF p = FC THEN c
          ELSE IF p = FD THEN d ELSE IF p = FE THEN e ELSE IF p = FG THEN g
          ELSE NoFile]
      : a \in { File(<<x, Inc("file", <<"i", "/", "c", ".", "h">>)>>),
                File(<<Ref(<<"c">>)>>),
                File(<<x>>) },
        b \in { NoFile,
                File(<<Inc("virtual", <<"/", "i", "/", "c", ".", "h">>), Ref(<<"/", "c">>)>>),
                File(<<y>>) },
        c \in { File(<<y>>),
                File(<<y, Inc("file", <<"d", ".", "h">>)>>),
                File(<<Ref(<<"c">>)>>) },
        d \in { NoFile, File(<<x>>) },
        e \in { NoFile, File(<<Ref(<<"c">>)>>) },
        g \in { NoFile, File(<<x>>) } }

\* what a changed file may hold: what it held (it was touched) or an edit
Edits(f) ==
    {fs[f]} \cup
    (IF f \in {FA, FB}
     THEN { File(<<y, Inc("file", <<"i", "/", "c", ".", "h">>)>>),
            File(<<Ref(<<"c">>), x>>),
            File(<<Inc("file", <<"b", ".", "h">>)>>),
            File(<<Inc("file", <<"z", ".", "h">>)>>) }
     ELSE IF f \in {FC, FD}
     THEN { File(<<x, x>>) }
     ELSE IF f \in {FE, FG}
     THEN { File(<<y>>) }
     ELSE {})

InitIncr ==
    /\ fs \in IncrTrees
    /\ phase = "idle"
    /\ todo = <<>>
    /\ job = NoJob
    /\ calls = <<>>
    /\ exc = NoErr
    /\ dt = NewTracker
    /\ output = EmptyTree
    /\ results = ZeroResults
    /\ last = NoLast
    /\ affected = NoAffected
    /\ at = NewAssetTracker
    /\ outcome = NoOutcome
    /\ incr = NoInc

\* every source file was last modified at some time after the epoch
InitWatch ==
    /\ mtime = [p \in AllPaths |-> 1]
    /\ cache = <<>>
    /\ watch = NoWatch

\* watch() after its initial build returned: the watcher keeps the trackers
\* of the build and initialises the modification cache.  When the build
\* throws, watch() exits.
StartWatching ==
    /\ phase = "done" /\ incr = NoInc /\ ~watch.on
    /\ watch' = [watch EXCEPT !.on = TRUE]
    /\ cache' = CacheSetAll(cache, ScanDirectory)
    /\ UNCHANGED <<mtime, buildVars, pathVars, depVars, assetVars>>

\* the trackers the watcher passes to incrementalBuild
WatcherDependencyTracker == IF watch.current THEN dt ELSE watch.dependencyTracker
WatcherAssetTracker == IF watch.current THEN at ELSE watch.assetTracker

\* what the watcher may see happen to the file f: it is saved ('change'),
\* deleted ('unlink') or created ('add')
Events(f) ==
    IF fs[f].st = "file"
    THEN { [event |-> "changed", c |-> e] : e \in Edits(f) }
            \cup { [event |-> "removed", c |-> NoFile] }
    ELSE { [event |-> "added", c |-> e] : e \in Edits(f) \ {fs[f]} }

\* the event ev happens to the file changedFile after the initial build: the
\* watcher calls incrementalBuild, which plans what to rebuild
IncrementalBuild(changedFile, ev) ==
    /\ phase = "done" /\ incr = NoInc /\ watch.on
    /\ fs' = [fs EXCEPT ![changedFile] = ev.c]
    /\ mtime' = [mtime EXCEPT ![changedFile] = IF ev.event = "removed" THEN @ ELSE @ + 1]
    /\ LET filesToRebuild == GetFilesToRebuild(changedFile)
       IN  /\ incr' = [changed |-> changedFile, event |-> ev.event,
                       planned |-> filesToRebuild,
                       fallback |-> FALSE, output |-> output, dt |-> dt, at |-> at]
           /\ phase' = IF filesToRebuild.ok THEN "rebuild" ELSE "rebuild-failed"
           /\ todo' = filesToRebuild.files
           /\ outcome' = IF filesToRebuild.ok THEN NoOutcome ELSE [kind |-> "TypeError"]
    /\ results' = ZeroResults
    /\ UNCHANGED <<job, calls, exc, dt, output, last, affected, at, cache, watch,
                   pathVars, depVars, assetVars>>

\* one round of the rebuild loop for a file that is neither HTML nor
\* markdown; copyAsset and the fs.stat after it fail for a file that is gone
RebuildAsset ==
    /\ phase = "rebuild" /\ todo # <<>> /\ job = NoJob
    /\ ~IsHtmlFile(Head(todo)) /\ ~IsMarkdownFile(Head(todo))
    /\ LET filePath == Head(todo)
           outputPath == GetOutputPath(filePath, SourceRoot, OutputRoot)
           gone == fs[filePath].st # "file"
           collected(res, name) ==
               [res EXCEPT !.errors =
                   Append(@, [file |-> filePath, error |-> Err(name, filePath, <<>>)])]
       IN  /\ IF IsAssetReferenced(at, filePath)
              THEN IF gone
                   THEN /\ output' = output
                        /\ results' = collected(results, "FileSystemError")
                   ELSE /\ output' = [q \in DOMAIN output \cup {outputPath} |->
                                         IF q = outputPath THEN fs[filePath].c
                                         ELSE output[q]]
                        /\ results' = [results EXCEPT !.copied = @ + 1]
              ELSE /\ output' = output
                   /\ results' = IF gone
                                 THEN collected([results EXCEPT !.skipped = @ + 1], "ENOENT")
                                 ELSE [results EXCEPT !.skipped = @ + 1]
           /\ cache' = IF gone THEN cache ELSE CacheAfter(filePath)
    /\ todo' = Tail(todo)
    /\ UNCHANGED <<fs, phase, job, calls, exc, dt, last, affected, mtime, watch, pathVars,
                   depVars, assetVars, runVars>>

\* the value incrementalBuild() returns: without a file to rebuild the counts
\* and the dependency tracker, after the loop the counts and both trackers
IncrementalResult ==
    IF incr.planned.files = <<>>
    THEN Outcome(ZeroResults) @@ [dependencyTracker |-> dt]
    ELSE Outcome(results) @@ [dependencyTracker |-> dt, assetTracker |-> at]

\* a round of the rebuild loop for an HTML partial: it is not processed, and
\* its modification time is cached
RebuildPartial ==
    /\ phase = "rebuild" /\ todo # <<>> /\ job = NoJob
    /\ IsHtmlFile(Head(todo)) /\ IsPartialFile(Head(todo), IncludesDir)
    /\ cache' = CacheAfter(Head(todo))
    /\ todo' = Tail(todo)
    /\ UNCHANGED <<fs, phase, job, calls, exc, dt, output, results, last, affected, mtime,
                   watch, pathVars, depVars, assetVars, runVars>>

\* the end of incrementalBuild(): BuildError when an error was collected
FinishRebuild ==
    /\ phase = "rebuild" /\ todo = <<>> /\ job = NoJob
    /\ phase' = IF results.errors # <<>> THEN "rebuild-failed" ELSE "rebuilt"
    /\ outcome' = IF results.errors # <<>> THEN Outcome(results) ELSE IncrementalResult
    /\ UNCHANGED <<fs, todo, job, calls, exc, dt, output, results, last, affected, at,
                   incr, watchVars, pathVars, depVars, assetVars>>

\* incrementalBuild threw: the watcher falls back to build()
Fallback ==
    /\ phase = "rebuild-failed" /\ ~incr.fallback
    /\ phase' = "content"
    /\ todo' = ContentFiles
    /\ dt' = NewTracker
    /\ at' = NewAssetTracker
    /\ output' = EmptyTree
    /\ results' = ZeroResults
    /\ outcome' = NoOutcome
    /\ incr' = [incr EXCEPT !.fallback = TRUE]
    /\ watch' = [watch EXCEPT !.current = FALSE, !.dependencyTracker = dt,
                              !.assetTracker = at]
    /\ UNCHANGED <<fs, job, calls, exc, last, affected, mtime, cache, pathVars, depVars,
                   assetVars>>

\* a variant of the watcher that goes on with the trackers it had and leaves
\* the modification cache as it is
FallbackDone_keep ==
    /\ phase = "done" /\ incr.fallback
    /\ phase' = "watching"
    /\ UNCHANGED <<fs, todo, job, calls, exc, dt, output, results, last, affected, runVars,
                   watchVars, pathVars, depVars, assetVars>>

\* the full build of the fallback returned: the watcher takes its trackers
\* and initialises the modification cache again; then the handler is over
FallbackDone ==
    /\ phase = "done" /\ incr.fallback
    /\ phase' = "watching"
    /\ watch' = [watch EXCEPT !.current = TRUE, !.dependencyTracker = NewTracker,
                              !.assetTracker = NewAssetTracker]
    /\ cache' = CacheSetAll(cache, ScanDirectory)
    /\ UNCHANGED <<fs, todo, job, calls, exc, dt, output, results, last, affected, runVars,
                   mtime, pathVars, depVars, assetVars>>

\* the full build of the fallback threw: the watcher logs the error and the
\* handler is over
FallbackFailed ==
    /\ phase = "failed" /\ incr.fallback
    /\ phase' = "watching"
    /\ UNCHANGED <<fs, todo, job, calls, exc, dt, output, results, last, affected, runVars,
                   watchVars, pathVars, depVars, assetVars>>

\* a variant of the second build that skips the files it has seen before
BuildAgain_cached ==
    /\ phase \in {"done", "failed"} /\ incr = NoInc /\ ~watch.on
    /\ phase' = "content"
    /\ todo' = <<>>
    /\ dt' = NewTracker
    /\ at' = NewAssetTracker
    /\ output' = EmptyTree
    /\ results' = ZeroResults
    /\ outcome' = NoOutcome
    /\ incr' = [NoInc EXCEPT !.event = "again", !.output = output, !.dt = dt, !.at = at]
    /\ UNCHANGED <<fs, job, calls, exc, last, affected, watchVars, pathVars, depVars, assetVars>>

\* build() is called once more on the source tree as it is
BuildAgain ==
    /\ phase \in {"done", "failed"} /\ incr = NoInc /\ ~watch.on
    /\ phase' = "content"
    /\ todo' = ContentFiles
    /\ dt' = NewTracker
    /\ at' = NewAssetTracker
    /\ output' = EmptyTree
    /\ results' = ZeroResults
    /\ outcome' = NoOutcome
    /\ incr' = [NoInc EXCEPT !.event = "again", !.output = output, !.dt = dt, !.at = at]
    /\ UNCHANGED <<fs, job, calls, exc, last, affected, watchVars, pathVars, depVars, assetVars>>

\* initializeModificationCache(sourceRoot) is called after a build
InitializeCacheOfTree ==
    /\ phase = "done" /\ incr = NoInc /\ ~watch.on /\ cache = <<>>
    /\ cache' = CacheSetAll(cache, ScanDirectory)
    /\ UNCHANGED <<mtime, watch, buildVars, pathVars, depVars, assetVars>>

\* what may happen to the file f before incrementalBuild is called without a
\* changed file: an event of the watcher's kinds, or nothing
ScanEvents(f) == Events(f) \cup { [event |-> "none", c |-> fs[f]] }

\* the event ev happens to the file f after a build, then
\* incrementalBuild(options, null, dt, at) is called: every scanned file
\* whose modification time is newer than the cached one, or not cached, is
\* planned for the rebuild loop
IncrementalBuildAll(f, ev) ==
    /\ phase = "done" /\ incr = NoInc /\ ~watch.on
    /\ LET tree == [fs EXCEPT ![f] = ev.c]
           times == [mtime EXCEPT ![f] = IF ev.event \in {"removed", "none"} THEN @ ELSE @ + 1]
           allFiles == SelectSeq(ScanOrder, LAMBDA p : tree[p].st # "missing")
           changed(p) == Not(CacheGet(cache, p)) \/ times[p] > CacheGet(cache, p).v
           filesToRebuild == SelectSeq(allFiles, changed)
       IN  /\ fs' = tree
           /\ mtime' = times
           /\ incr' = [changed |-> <<>>, event |-> "scan",
                       planned |-> [ok |-> TRUE, files |-> filesToRebuild],
                       fallback |-> FALSE, output |-> output, dt |-> dt, at |-> at]
           /\ todo' = filesToRebuild
    /\ phase' = "rebuild"
    /\ outcome' = NoOutcome
    /\ results' = ZeroResults
    /\ UNCHANGED <<job, calls, exc, dt, output, last, affected, at, cache, watch,
                   pathVars, depVars, assetVars>>

NextScan ==
    \/ StartBuild
    \/ SkipPartial
    \/ BeginHtmlPage
    \/ BeginMarkdownPage
    \/ IncludeStep
    \/ ReturnStep
    \/ Rethrow
    \/ CompletePage
    \/ FailPage
    \/ BeginAssets
    \/ AssetStep
    \/ FinishBuild
    \/ InitializeCacheOfTree
    \/ \E f \in {FA, FB, FC, FD, FE, FG} :
          \E ev \in ScanEvents(f) : IncrementalBuildAll(f, ev)
    \/ RebuildPartial
    \/ RebuildAsset
    \/ FinishRebuild

NextIncr ==
    \/ StartBuild
    \/ SkipPartial
    \/ BeginHtmlPage
    \/ BeginMarkdownPage
    \/ IncludeStep
    \/ ReturnStep
    \/ Rethrow
    \/ CompletePage
    \/ FailPage
    \/ BeginAssets
    \/ AssetStep
    \/ FinishBuild
    \/ StartWatching
    \/ \E changedFile \in {FA, FB, FC, FD, FE, FG} :
          \E ev \in Events(changedFile) : IncrementalBuild(changedFile, ev)
    \/ RebuildAsset
    \/ FinishRebuild
    \/ Fallback
    \/ FallbackDone
    \/ FallbackFailed
    \/ BuildAgain

-----------------------------------------------------------------------------
(* The development server: serve() of server/dev-server.js builds the site  *)
(* and hands the build's dependency tracker to the FileWatcher of           *)
(* server/live-reload.js, whose rebuilder is rebuildSingleFile.             *)

\* the dependency tracker after processFileChange: handleFileRemoval removes
\* the file from it, nothing else touches it
TrackerOnChange(changedFile, ev) ==
    IF ev.event = "removed" THEN RemoveFile(dt, changedFile) ELSE dt

\* the files processFileChange hands to the rebuilder
FilesToRebuilder(changedFile, ev) ==
    IF ev.event = "removed" THEN <<>>
    ELSE IF IsHtmlFile(changedFile) /\ IsPartialFile(changedFile, IncludesDir)
    THEN GetAffectedPages(dt, changedFile, StackLimit).pages
    ELSE <<changedFile>>

\* the event ev happens to the file changedFile while the server runs:
\* processFileChange up to its first call of the rebuilder
ProcessFileChange(changedFile, ev) ==
    /\ phase = "done" /\ incr = NoInc
    /\ fs' = [fs EXCEPT ![changedFile] = ev.c]
    /\ mtime' = [mtime EXCEPT ![changedFile] = IF ev.event = "removed" THEN @ ELSE @ + 1]
    /\ incr' = [changed |-> changedFile, event |-> ev.event,
                planned |-> [ok |-> TRUE, files |-> FilesToRebuilder(changedFile, ev)],
                fallback |-> FALSE, output |-> output, dt |-> dt, at |-> at]
    /\ dt' = TrackerOnChange(changedFile, ev)
    /\ output' = IF ev.event = "removed"
                 THEN [q \in DOMAIN output \ {GetOutputPath(changedFile, SourceRoot,
                                                            OutputRoot)} |-> output[q]]
                 ELSE output
    /\ todo' = FilesToRebuilder(changedFile, ev)
    /\ phase' = "serving"
    /\ last' = NoLast
    /\ UNCHANGED <<job, calls, exc, results, affected, at, outcome, cache, watch, pathVars,
                   depVars, assetVars>>

\* rebuildSingleFile for an HTML file: the file is read and processIncludes
\* entered without a tracker; an error is logged by the watcher
BeginSingleFile ==
    /\ phase = "serving" /\ todo # <<>> /\ job = NoJob
    /\ IsHtmlFile(Head(todo))
    /\ LET filePath == Head(todo)
           rd == ReadFile(filePath)
           e == EnterIncludes(rd.c, filePath, {}, 0)
       IN  IF rd.st # "ok"
           THEN /\ last' = [file |-> filePath, kind |-> "single",
                            err |-> Err("FileSystemError", filePath, <<>>), text |-> <<>>]
                /\ todo' = Tail(todo)
                /\ UNCHANGED <<job, calls, exc>>
           ELSE /\ job' = [file |-> filePath, kind |-> "single"]
                /\ calls' = IF e.err = NoErr THEN <<e.frame>> ELSE <<>>
                /\ exc' = e.err
                /\ UNCHANGED <<todo, last>>
    /\ UNCHANGED <<fs, phase, dt, output, results, affected, runVars, watchVars, pathVars,
                   depVars, assetVars>>

\* processIncludes returned to rebuildSingleFile: the page is written
CompleteSingleFile ==
    /\ job.kind = "single" /\ exc = NoErr /\ Len(calls) = 1
    /\ Top.i > Len(Top.matches)
    /\ LET outputPath == GetOutputPath(job.file, SourceRoot, OutputRoot)
       IN  IF WriteFails(outputPath)
           THEN /\ last' = [file |-> job.file, kind |-> "single",
                            err |-> Err("FileSystemError", outputPath, <<>>),
                            text |-> <<>>]
                /\ output' = output
           ELSE /\ last' = [file |-> job.file, kind |-> "single", err |-> NoErr,
                            text |-> Top.text]
                /\ output' = [q \in DOMAIN output \cup {outputPath} |->
                                 IF q = outputPath THEN Top.text ELSE output[q]]
    /\ todo' = Tail(todo)
    /\ job' = NoJob
    /\ calls' = <<>>
    /\ UNCHANGED <<fs, phase, exc, dt, results, affected, runVars, watchVars, pathVars,
                   depVars, assetVars>>

\* processIncludes threw: the watcher logs the error
FailSingleFile ==
    /\ job.kind = "single" /\ exc # NoErr /\ calls = <<>>
    /\ last' = [file |-> job.file, kind |-> "single", err |-> exc, text |-> <<>>]
    /\ todo' = Tail(todo)
    /\ job' = NoJob
    /\ exc' = NoErr
    /\ UNCHANGED <<fs, phase, calls, dt, output, results, affected, runVars, watchVars,
                   pathVars, depVars, assetVars>>

\* rebuildSingleFile for any other file: it is copied
CopySingleFile ==
    /\ phase = "serving" /\ todo # <<>> /\ job = NoJob
    /\ ~IsHtmlFile(Head(todo))
    /\ LET filePath == Head(todo)
           outputPath == GetOutputPath(filePath, SourceRoot, OutputRoot)
       IN  IF fs[filePath].st # "file"
           THEN /\ last' = [file |-> filePath, kind |-> "copy",
                            err |-> Err("ENOENT", filePath, <<>>), text |-> <<>>]
                /\ output' = output
           ELSE /\ last' = [file |-> filePath, kind |-> "copy", err |-> NoErr,
                            text |-> fs[filePath].c]
                /\ output' = [q \in DOMAIN output \cup {outputPath} |->
                                 IF q = outputPath THEN fs[filePath].c ELSE output[q]]
    /\ todo' = Tail(todo)
    /\ UNCHANGED <<fs, phase, job, calls, exc, dt, results, affected, runVars, watchVars,
                   pathVars, depVars, assetVars>>

\* the end of processFileChange: the browsers are told to reload
BroadcastReload ==
    /\ phase = "serving" /\ todo = <<>> /\ job = NoJob
    /\ phase' = "served"
    /\ UNCHANGED <<fs, todo, job, calls, exc, dt, output, results, last, affected, runVars,
                   watchVars, pathVars, depVars, assetVars>>

NextDev ==
    \/ StartBuild
    \/ SkipPartial
    \/ BeginHtmlPage
    \/ BeginMarkdownPage
    \/ IncludeStep
    \/ ReturnStep
    \/ Rethrow
    \/ CompletePage
    \/ FailPage
    \/ BeginAssets
    \/ AssetStep
    \/ FinishBuild
    \/ \E changedFile \in {FA, FB, FC, FD, FE, FG} :
          \E ev \in Events(changedFile) : ProcessFileChange(changedFile, ev)
    \/ BeginSingleFile
    \/ CompleteSingleFile
    \/ FailSingleFile
    \/ CopySingleFile
    \/ BroadcastReload

-----------------------------------------------------------------------------
(* incrementalBuild() called without a changed file, on source files that  *)
(* are saved between the calls.  rout holds the last call, with the cache   *)
(* it started from.                                                         *)

\* the latest modification time, in milliseconds since the epoch
MaxMtime == 2

\* the files scanDirectory finds
CacheFiles == <<FA, FC, FG>>

\* getFilesToRebuild(sourceRoot, null, tracker)
GetFilesToRebuildScan == SelectSeq(CacheFiles, HasFileChanged)

NoCall == [name |-> "none", files |-> <<>>, cache |-> <<>>]

InitCache ==
    /\ mtime \in [Range(CacheFiles) -> 0..MaxMtime]
    /\ cache = <<>>
    /\ watch = NoWatch
    /\ rin = <<>>
    /\ rout = NoCall

\* a file is saved, or restored with another modification time
Touch(f) ==
    /\ \E t \in 0..MaxMtime : t # mtime[f] /\ mtime' = [mtime EXCEPT ![f] = t]
    /\ rout' = NoCall
    /\ UNCHANGED <<rin, cache, watch, buildVars, depVars, assetVars>>

\* incrementalBuild(options) with no changed file: every file of the changed
\* set is rebuilt and its modification time cached
IncrementalBuildScan ==
    /\ LET filesToRebuild == GetFilesToRebuildScan
       IN  /\ cache' = CacheSetAll(cache, filesToRebuild)
           /\ rout' = [name |-> "incrementalBuild", files |-> filesToRebuild,
                       cache |-> cache]
    /\ UNCHANGED <<rin, mtime, watch, buildVars, depVars, assetVars>>

InitializeModificationCache ==
    /\ cache' = CacheSetAll(cache, CacheFiles)
    /\ rout' = [name |-> "initializeModificationCache", files |-> <<>>, cache |-> cache]
    /\ UNCHANGED <<rin, mtime, watch, buildVars, depVars, assetVars>>

NextCache ==
    \/ \E f \in Range(CacheFiles) : Touch(f)
    \/ IncrementalBuildScan
    \/ InitializeModificationCache

-----------------------------------------------------------------------------
(* The dependency tracker called on its own, one public method per action.  *)
(* op holds the outcome of a getAffectedPages call until the next call.     *)

DepFiles == {FA, FC}

DepLists == UNION {[1..n -> DepFiles] : n \in 0..MaxDeps}

\* documents handed to analyzePage
DepContents ==
    { <<x>>,
      <<Inc("virtual", <<"/", "i", "/", "c", ".", "h">>)>>,
      <<Inc("virtual", <<"/", "a", ".", "h">>), y,
        Inc("virtual", <<"i", "/", "c", ".", "h">>)>>,
      <<Inc("file", <<".", ".", "/", ".", ".", "/", "e">>),
        Inc("virtual", <<"/", "a", ".", "h">>)>> }

InitDep ==
    /\ trk = NewTracker
    /\ op = [name |-> "new", file |-> <<>>, res |-> [ok |-> TRUE, pages |-> <<>>]]

DepRecord(pagePath, includePaths) ==
    /\ trk' = RecordDependencies(trk, pagePath, includePaths)
    /\ op' = [name |-> "recordDependencies", file |-> <<>>,
              res |-> [ok |-> TRUE, pages |-> <<>>]]
    /\ UNCHANGED <<pathVars, buildVars, watchVars, assetVars>>

DepAnalyze(pagePath, htmlContent) ==
    /\ trk' = AnalyzePage(trk, pagePath, htmlContent, SourceRoot)
    /\ op' = [name |-> "analyzePage", file |-> <<>>,
              res |-> [ok |-> TRUE, pages |-> <<>>]]
    /\ UNCHANGED <<pathVars, buildVars, watchVars, assetVars>>

DepRemove(filePath) ==
    /\ trk' = RemoveFile(trk, filePath)
    /\ op' = [name |-> "removeFile", file |-> <<>>,
              res |-> [ok |-> TRUE, pages |-> <<>>]]
    /\ UNCHANGED <<pathVars, buildVars, watchVars, assetVars>>

DepClear ==
    /\ trk' = ClearTracker(trk)
    /\ op' = [name |-> "clear", file |-> <<>>, res |-> [ok |-> TRUE, pages |-> <<>>]]
    /\ UNCHANGED <<pathVars, buildVars, watchVars, assetVars>>

DepGetAffected(includePath) ==
    /\ op' = [name |-> "getAffectedPages", file |-> includePath,
              res |-> GetAffectedPages(trk, includePath, StackLimit)]
    /\ UNCHANGED <<trk, pathVars, buildVars, watchVars, assetVars>>

NextDep ==
    \/ \E p \in DepFiles, L \in DepLists : DepRecord(p, L)
    \/ \E p \in DepFiles, c \in DepContents : DepAnalyze(p, c)
    \/ \E f \in DepFiles : DepRemove(f)
    \/ DepClear
    \/ \E f \in DepFiles : DepGetAffected(f)

-----------------------------------------------------------------------------
(* The asset tracker called on its own, one public method per action.       *)

\* the pages: one in the source root, one in a directory below it
AssetPages == {FA, FC}

\* the paths written in the references of the documents
RawRefs ==
    << <<"c">>,                              \* c, beside the page
       <<"/", "c">>,                         \* /c, from the source root
       <<".", ".", "/", "c">>,               \* ../c
       <<".", ".">>,                         \* ..
       <<"/", ".", ".", "/", "c">>,          \* /../c
       <<"http:", "/", "/", "e", "/", "c">>,
       <<"https:", "/", "/", "e", "/", "c">>,
       <<"/", "/", "e", "/", "c">>,
       <<"data:", "c">>,
       <<"i", "/">> >>                       \* i/, a directory

\* documents handed to recordAssetReferences
AssetContents ==
    {<<>>, <<Ref(RawRefs[1]), Ref(RawRefs[2])>>, <<Ref(RawRefs[3]), x, Ref(RawRefs[1])>>}
    \cup { <<Ref(RawRefs[n])>> : n \in 1..Len(RawRefs) }

NoAssetOp == [name |-> "none", page |-> <<>>]
NoRecords == [p \in {} |-> <<>>]

InitAsset ==
    /\ atrk = NewAssetTracker
    /\ arec = NoRecords
    /\ aop = [name |-> "new", page |-> <<>>]

AssetRecord(pagePath, htmlContent) ==
    /\ atrk' = RecordAssetReferences(atrk, pagePath, htmlContent, SourceRoot)
    /\ arec' = [p \in DOMAIN arec \cup {pagePath} |->
                   IF p = pagePath
                   THEN [c |-> htmlContent, again |-> pagePath \in DOMAIN arec]
                   ELSE arec[p]]
    /\ aop' = [name |-> "recordAssetReferences", page |-> pagePath]
    /\ UNCHANGED <<pathVars, buildVars, watchVars, depVars>>

AssetRemovePage(pagePath) ==
    /\ atrk' = RemovePage(atrk, pagePath)
    /\ arec' = [p \in DOMAIN arec \ {pagePath} |-> arec[p]]
    /\ aop' = [name |-> "removePage", page |-> pagePath]
    /\ UNCHANGED <<pathVars, buildVars, watchVars, depVars>>

AssetClear ==
    /\ atrk' = ClearAssetTracker(atrk)
    /\ arec' = NoRecords
    /\ aop' = [name |-> "clear", page |-> <<>>]
    /\ UNCHANGED <<pathVars, buildVars, watchVars, depVars>>

NextAsset ==
    \/ \E p \in AssetPages, c \in AssetContents : AssetRecord(p, c)
    \/ \E p \in AssetPages : AssetRemovePage(p)
    \/ AssetClear

-----------------------------------------------------------------------------
(* Specifications *)

IdlePath ==
    /\ rin = [type |-> "file", includePath |-> <<>>,
              sourceRoot |-> SourceRoot, currentFilePath |-> FA]
    /\ rout = [done |-> TRUE, res |-> Throw("none")]

IdleBuild ==
    /\ fs = [p \in AllPaths |-> NoFile]
    /\ phase = "off"
    /\ todo = <<>>
    /\ job = NoJob
    /\ calls = <<>>
    /\ exc = NoErr
    /\ dt = NewTracker
    /\ output = EmptyTree
    /\ results = ZeroResults
    /\ last = NoLast
    /\ affected = NoAffected
    /\ at = NewAssetTracker
    /\ outcome = NoOutcome
    /\ incr = NoInc

NoOp == [name |-> "none", file |-> <<>>, res |-> [ok |-> TRUE, pages |-> <<>>]]

IdleDep ==
    /\ trk = NewTracker
    /\ op = NoOp

IdleAsset ==
    /\ atrk = NewAssetTracker
    /\ arec = NoRecords
    /\ aop = NoAssetOp

IdleWatch ==
    /\ mtime = <<>>
    /\ cache = <<>>
    /\ watch = NoWatch

\* the path resolver
InitSpecPath == InitPath /\ IdleBuild /\ IdleDep /\ IdleAsset /\ IdleWatch

SpecPath == InitSpecPath /\ [][Resolve]_vars

\* a full build of a source tree
InitSpecBuild == IdlePath /\ InitBuild /\ IdleDep /\ IdleAsset /\ IdleWatch

SpecBuild == InitSpecBuild /\ [][NextBuild]_vars

\* the dependency tracker
InitSpecDep == IdlePath /\ IdleBuild /\ InitDep /\ IdleAsset /\ IdleWatch

SpecDep == InitSpecDep /\ [][NextDep]_vars

\* the asset tracker
InitSpecAsset == IdlePath /\ IdleBuild /\ IdleDep /\ InitAsset /\ IdleWatch

SpecAsset == InitSpecAsset /\ [][NextAsset]_vars

InitSpecIncr == IdlePath /\ InitIncr /\ InitWatch /\ IdleDep /\ IdleAsset

InitSpecOut == InitOut /\ IdleBuild /\ IdleDep /\ IdleAsset /\ IdleWatch

SpecOut == InitSpecOut /\ [][MapToOutput]_vars

InitSpecServe == InitServe /\ IdleBuild /\ IdleDep /\ IdleAsset /\ IdleWatch

SpecServe == InitSpecServe /\ [][Respond]_vars

SpecIncr == InitSpecIncr /\ [][NextIncr]_vars

\* a build followed by incrementalBuild without a changed file
SpecScan == InitSpecIncr /\ [][NextScan]_vars

\* the development server and its watcher
InitSpecDev == IdlePath /\ InitIncr /\ InitWatch /\ IdleDep /\ IdleAsset

SpecDev == InitSpecDev /\ [][NextDev]_vars

\* the classification of a source file
InitSpecClass == InitClass /\ IdleBuild /\ IdleDep /\ IdleAsset /\ IdleWatch

SpecClass == InitSpecClass /\ [][Classify]_vars

\* the modification cache
InitSpecCache == InitCache /\ IdleBuild /\ IdleDep /\ IdleAsset

SpecCache == InitSpecCache /\ [][NextCache]_vars

-----------------------------------------------------------------------------
(* core/file-watcher.js: handleFileChange, its debounce timer and the builds *)
(* it starts.  Here `watch` holds buildInProgress, debounceTimer, the timer  *)
(* callbacks that are awaiting a build, and for the record the files with a  *)
(* change no build was started for since (a build is taken to cover what it  *)
(* was started for: incrementalBuild its file, build() every file).          *)

MaxEvents == 4
MaxBuilds == 2

WatchedFiles == {FA, FB, FE}
EventTypes == {"added", "changed", "removed"}

NoTimer == [pending |-> FALSE, eventType |-> "none", filePath |-> <<>>]

InitDebounce ==
    /\ watch = [on |-> TRUE, buildInProgress |-> FALSE, debounceTimer |-> NoTimer,
                callbacks |-> <<>>, uncovered |-> {}, events |-> 0]
    /\ mtime = <<>>
    /\ cache = <<>>

\* a variant of the handler that does not look at buildInProgress
HandleFileChange_unguarded(eventType, filePath) ==
    /\ watch.events < MaxEvents
    /\ watch' = [watch EXCEPT
                   !.events = @ + 1,
                   !.uncovered = @ \cup {filePath},
                   !.debounceTimer = [pending |-> TRUE, eventType |-> eventType,
                                      filePath |-> filePath]]
    /\ UNCHANGED <<mtime, cache, buildVars, pathVars, depVars, assetVars>>

\* chokidar reports an event: handleFileChange returns at once while a build
\* is in progress, otherwise it clears the timer and sets a new one
HandleFileChange(eventType, filePath) ==
    /\ watch.events < MaxEvents
    /\ watch' = IF watch.buildInProgress
                THEN [watch EXCEPT !.events = @ + 1, !.uncovered = @ \cup {filePath}]
                ELSE [watch EXCEPT
                        !.events = @ + 1,
                        !.uncovered = @ \cup {filePath},
                        !.debounceTimer = [pending |-> TRUE, eventType |-> eventType,
                                           filePath |-> filePath]]
    /\ UNCHANGED <<mtime, cache, buildVars, pathVars, depVars, assetVars>>

\* the list without its i-th element
Without(seq, i) == SubSeq(seq, 1, i - 1) \o SubSeq(seq, i + 1, Len(seq))

\* 100 ms have passed: the callback sets buildInProgress and awaits
\* incrementalBuild for the file of the timer
TimerFires ==
    /\ watch.debounceTimer.pending
    /\ Len(watch.callbacks) < MaxBuilds
    /\ watch' = [watch EXCEPT
                   !.debounceTimer = NoTimer,
                   !.buildInProgress = TRUE,
                   !.callbacks = Append(@, [filePath |-> watch.debounceTimer.filePath,
                                            stage |-> "incremental"]),
                   !.uncovered = @ \ {watch.debounceTimer.filePath}]
    /\ UNCHANGED <<mtime, cache, buildVars, pathVars, depVars, assetVars>>

\* incrementalBuild returned: the callback ends, `finally` clears the flag
IncrementalBuildReturns(i) ==
    /\ i \in 1..Len(watch.callbacks)
    /\ watch.callbacks[i].stage = "incremental"
    /\ watch' = [watch EXCEPT !.callbacks = Without(@, i), !.buildInProgress = FALSE]
    /\ UNCHANGED <<mtime, cache, buildVars, pathVars, depVars, assetVars>>

\* incrementalBuild threw: the callback awaits build(config)
IncrementalBuildThrows(i) ==
    /\ i \in 1..Len(watch.callbacks)
    /\ watch.callbacks[i].stage = "incremental"
    /\ watch' = [watch EXCEPT !.callbacks[i].stage = "full", !.uncovered = {}]
    /\ UNCHANGED <<mtime, cache, buildVars, pathVars, depVars, assetVars>>

\* the full build returned or threw: the callback ends, `finally` clears the
\* flag
FallbackOver(i) ==
    /\ i \in 1..Len(watch.callbacks)
    /\ watch.callbacks[i].stage = "full"
    /\ watch' = [watch EXCEPT !.callbacks = Without(@, i), !.buildInProgress = FALSE]
    /\ UNCHANGED <<mtime, cache, buildVars, pathVars, depVars, assetVars>>

NextDebounce ==
    \/ \E eventType \in EventTypes : \E filePath \in WatchedFiles :
          HandleFileChange(eventType, filePath)
    \/ TimerFires
    \/ \E i \in 1..MaxBuilds : IncrementalBuildReturns(i)
    \/ \E i \in 1..MaxBuilds : IncrementalBuildThrows(i)
    \/ \E i \in 1..MaxBuilds : FallbackOver(i)

InitSpecDebounce == InitDebounce /\ IdlePath /\ IdleBuild /\ IdleDep /\ IdleAsset

\* the change handler of watch(), its timer and the builds it starts
SpecDebounce == InitSpecDebounce /\ [][NextDebounce]_vars

\* a timer that is due fires, and a build that was started settles
SpecDebounceFair ==
    /\ SpecDebounce
    /\ WF_vars(TimerFires)
    /\ WF_vars(\E i \in 1..MaxBuilds : IncrementalBuildReturns(i) \/ IncrementalBuildThrows(i))
    /\ WF_vars(\E i \in 1..MaxBuilds : FallbackOver(i))

-----------------------------------------------------------------------------
(* Properties of the path resolver (SpecPath) *)

\* the segments of the canonical path a directive names: relative to the
\* including file's directory (file), relative to the source root (virtual)
CanonicalSegs ==
    IF rin.type = "file"
    THEN IF rin.includePath[1] = "/"
         THEN NormSegs(Split(rin.includePath), 1, <<>>)
         ELSE NormSegs(Split(PathDirname(rin.currentFilePath)) \o Split(rin.includePath),
                       1, <<>>)
    ELSE NormSegs(Split(rin.sourceRoot) \o Split(rin.includePath), 1, <<>>)

\* the canonical path is the source root or lies below it at a separator
InsideRoot ==
    LET root == NormSegs(Split(rin.sourceRoot), 1, <<>>)
    IN  /\ Len(root) <= Len(CanonicalSegs)
        /\ SubSeq(CanonicalSegs, 1, Len(root)) = root

ValidCall == rout.done /\ rin.type \in {"file", "virtual"} /\ rin.includePath # <<>>

\* C1: for every kind in {file, virtual}, non-empty raw path, including file and
\* source root, resolveIncludePath returns the canonical path exactly when it is
\* the source root or lies below it at a separator boundary, and throws
\* PathTraversalError otherwise.
C1_ResolvesExactlyInsideRoot ==
    ValidCall =>
        IF InsideRoot
        THEN rout.res = Ok(<<"/">> \o JoinSegs(CanonicalSegs))
        ELSE rout.res = Throw("PathTraversalError")

-----------------------------------------------------------------------------
(* Properties of include expansion (SpecBuild).  The include graph of the    *)
(* source tree is described here from the files alone.                      *)

\* the file a directive of `file` names
Target(tok, file) == ResolveIncludePath(tok.a, tok.p, file, SourceRoot)

IsFile(path) == path \in DOMAIN fs /\ fs[path].st = "file"

\* where the build writes the page last processed
OutputOfLast ==
    IF last.kind = "html" THEN GetOutputPath(last.file, SourceRoot, OutputRoot)
    ELSE MarkdownOutputPath(last.file, SourceRoot, OutputRoot)

\* the page last processed can be written
Writable == ~WriteFails(OutputOfLast)

Directives(file) == IF IsFile(file) THEN Matches(fs[file].c) ELSE <<>>

RECURSIVE Expandable(_, _, _)
\* every directive at and below `file` names a readable file inside the source
\* root that is not on the chain, no deeper than the limit
Expandable(file, chain, depth) ==
    /\ IsFile(file)
    /\ \A tok \in Range(Directives(file)) :
          /\ Target(tok, file).ok
          /\ IsFile(Target(tok, file).path)
          /\ Target(tok, file).path \notin chain \cup {file}
          /\ depth + 1 <= MAX_INCLUDE_DEPTH
          /\ Expandable(Target(tok, file).path, chain \cup {file}, depth + 1)

RECURSIVE Expansion(_, _)
\* the content c of `file` with each directive replaced by the expansion of
\* its target, every other character kept
Expansion(c, file) ==
    IF c = <<>> THEN <<>>
    ELSE (IF Head(c).k = "inc"
          THEN LET t == Target(Head(c), file).path IN Expansion(fs[t].c, t)
          ELSE <<Head(c)>>)
         \o Expansion(Tail(c), file)

\* what a page's written text is when the expansion of its source is e
Framed(e) == IF last.kind = "markdown" THEN MarkdownPage(e) ELSE e

Processed == last.kind \in {"html", "markdown"}

\* C2: a document whose directives all resolve inside the source root to
\* readable files, without a cycle and within the depth limit, comes back with
\* each directive replaced by exactly the expanded content of its target, every
\* other character unchanged and no directive left, whatever the included
\* content contains.
C2_ExactExpansion ==
    Processed /\ Expandable(last.file, {}, 0) /\ Writable =>
        /\ last.err = NoErr
        /\ last.text = Framed(Expansion(fs[last.file].c, last.file))
        /\ \A i \in 1..Len(last.text) : last.text[i].k # "inc"

\* every directive of the source tree with the outcome of resolving it,
\* as pairs <<file, outcome>>
Links ==
    UNION { { <<f, Target(tok, f)>> : tok \in Range(Directives(f)) } : f \in DOMAIN fs }

\* the directive names a readable file inside the source root
Readable(l) == l[2].ok /\ IsFile(l[2].path)

\* the include graph of the source tree: its links, and the pairs
\* <<file, readable file one of its directives names>>
IncludeGraph ==
    [links |-> Links,
     edges |-> { <<l[1], l[2].path>> : l \in {m \in Links : Readable(m)} }]

RECURSIVE Closure(_, _)
Closure(g, S) ==
    LET n == S \cup { e[2] : e \in {d \in g.edges : d[1] \in S} }
    IN  IF n = S THEN S ELSE Closure(g, n)

\* the files `file` reaches through directives: itself included, and below it
Reaches(g, file) == Closure(g, {file})
Below(g, file) == Closure(g, { e[2] : e \in {d \in g.edges : d[1] = file} })

\* `file` transitively includes itself
IncludesItself(g, file) == file \in Below(g, file)

ReachesCycle(g, file) == \E f \in Reaches(g, file) : IncludesItself(g, f)

\* every directive at and below `file` names a readable file inside the root
AllTargetsReadable(g, file) ==
    \A l \in g.links : l[1] \in Reaches(g, file) => Readable(l)

\* C3 (as stated): whenever a file transitively includes itself through a cycle
\* of any length, expanding a top-level file that reaches the cycle rejects
\* with CircularDependencyError and with no other error.
C3_AnyCycleIsCircularError ==
    Processed /\ last.err.name # "CircularDependencyError" =>
        \A g \in {IncludeGraph} :
            ~(AllTargetsReadable(g, last.file) /\ ReachesCycle(g, last.file))

\* C3 (amended): the depth check comes first.  A top-level file that reaches a
\* cycle never gets a result; the error is CircularDependencyError when the
\* file reaches at most MAX_INCLUDE_DEPTH files (itself included), all readable.
C3_ShortCycleIsCircularError ==
    Processed /\ last.err.name # "CircularDependencyError" =>
        \A g \in {IncludeGraph} :
            /\ last.err = NoErr => ~ReachesCycle(g, last.file)
            /\ ~(/\ Cardinality(Reaches(g, last.file)) <= MAX_INCLUDE_DEPTH
                 /\ AllTargetsReadable(g, last.file)
                 /\ ReachesCycle(g, last.file))

\* a cycle through MAX_INCLUDE_DEPTH files was rejected as circular
C3_Witness ==
    /\ Processed
    /\ last.err.name = "CircularDependencyError"
    /\ \A g \in {IncludeGraph} :
          /\ Cardinality(Reaches(g, last.file)) = MAX_INCLUDE_DEPTH
          /\ AllTargetsReadable(g, last.file)
          /\ IncludesItself(g, last.file)

RECURSIVE Nest(_, _)
\* how many levels the include tree below `file` nests (an acyclic graph)
Nest(g, file) ==
    LET next == { e[2] : e \in {d \in g.edges : d[1] = file} }
        deep == { Nest(g, f) : f \in next }
    IN  IF next = {} THEN 0
        ELSE 1 + CHOOSE n \in deep : \A m \in deep : m <= n

NoDollar == \A p \in DOMAIN fs : \A i \in 1..Len(fs[p].c) : fs[p].c[i] # Chr("$")

\* C4: the include depth ceiling is exactly MAX_INCLUDE_DEPTH.  A top-level file
\* whose acyclic include tree nests at most that many levels below it gets a
\* result, one whose tree nests deeper fails as a whole, and a result is only
\* ever returned for a tree within the ceiling, completely expanded.
C4_DepthCeiling ==
    Processed =>
        \A g \in {IncludeGraph} :
            /\ AllTargetsReadable(g, last.file) /\ ~ReachesCycle(g, last.file) /\ Writable
               => (last.err = NoErr <=> Nest(g, last.file) <= MAX_INCLUDE_DEPTH)
            /\ last.err = NoErr
               => /\ AllTargetsReadable(g, last.file) /\ ~ReachesCycle(g, last.file)
                  /\ NoDollar
                     => last.text = Framed(Expansion(fs[last.file].c, last.file))

\* a tree that nests exactly MAX_INCLUDE_DEPTH levels was expanded
C4_Witness ==
    /\ Processed /\ last.err = NoErr
    /\ \A g \in {IncludeGraph} : Nest(g, last.file) = MAX_INCLUDE_DEPTH
    /\ Len(last.text) = MAX_INCLUDE_DEPTH + 1

\* a directive at or below `file` that cannot be expanded: its path leaves the
\* source root, or the file it names is missing or unreadable
FailingDirectives(g, file) == { l \in g.links : l[1] \in Reaches(g, file) /\ ~Readable(l) }

DirectiveErrors == {"IncludeNotFoundError", "PathTraversalError", "FileSystemError"}

HasErrorMarker(text) == \E i \in 1..Len(text) : text[i].k = "errc"

C6_VisitingSetIsChainScoped ==
    /\ \A n \in 1..Len(calls) : calls[n].set = { calls[m].file : m \in 1..n }
    /\ Processed /\ last.err.name = "CircularDependencyError" =>
          \A g \in {IncludeGraph} :
              /\ last.err.file \in Reaches(g, last.file)
              /\ IncludesItself(g, last.err.file)

\* a page was expanded that reaches one file along two branches
C6_Witness ==
    /\ Processed /\ last.err = NoErr
    /\ \A g \in {IncludeGraph} :
          \E l1 \in g.links, l2 \in g.links :
              /\ l1[1] # l2[1] /\ l1[2] = l2[2] /\ Readable(l1)
              /\ {l1[1], l2[1]} \subseteq Reaches(g, last.file)

\* the files the content loop treats as pages
HtmlPages == { p \in DOMAIN fs : IsFile(p) /\ IsHtmlFile(p) /\ ~IsPartialFile(p, IncludesDir) }
MarkdownPages == { p \in DOMAIN fs : IsFile(p) /\ ~IsHtmlFile(p) /\ IsMarkdownFile(p) }

\* C9: after a successful full build, for every file C and every top-level
\* page A that includes C directly or through a chain of nested includes,
\* getAffectedPages(C) contains A.
C9_AffectedIsTransitivelyClosed ==
    phase = "done" /\ affected.asked =>
        \A g \in {IncludeGraph} :
            /\ affected.res.ok
            /\ \A A \in HtmlPages \cup MarkdownPages :
                  affected.file \in Below(g, A) => A \in Range(affected.res.pages)

-----------------------------------------------------------------------------
(* Properties of the dependency tracker (SpecDep) *)

\* the files a tracker mentions, as a key or in a list
Mentioned(t) ==
    MapKeys(t.includesInPage) \cup MapKeys(t.pagesByInclude)
    \cup UNION { Range(t.includesInPage[n].v) : n \in 1..Len(t.includesInPage) }
    \cup UNION { Range(t.pagesByInclude[n].v) : n \in 1..Len(t.pagesByInclude) }

\* C7: after any sequence of recordDependencies, analyzePage, removeFile and
\* clear, include i is in includesInPage[p] if and only if page p is in
\* pagesByInclude[i], for all p and i.
C7_MapsAreInverses ==
    \A p \in Mentioned(trk) \cup DepFiles, i \in Mentioned(trk) \cup DepFiles :
        i \in Range(MapGet(trk.includesInPage, p))
        <=> p \in Range(MapGet(trk.pagesByInclude, i))

\* removeFile ran and left a page that lists itself twice
C7_Witness ==
    /\ op.name = "removeFile"
    /\ \E n \in 1..Len(trk.includesInPage) :
          trk.includesInPage[n].v = <<trk.includesInPage[n].k, trk.includesInPage[n].k>>
    /\ trk.pagesByInclude # <<>>

\* what recordDependencies(p, L) leaves behind
Replaced(p, L) ==
    /\ MapGet(trk'.includesInPage, p) = L
    /\ \A i \in (Mentioned(trk') \cup DepFiles) \ Range(L) :
          p \notin Range(MapGet(trk'.pagesByInclude, i))
    /\ \A n \in 1..Len(trk'.pagesByInclude) : trk'.pagesByInclude[n].v # <<>>
    /\ \A q \in (Mentioned(trk) \cup Mentioned(trk') \cup DepFiles) \ {p} :
          /\ MapHas(trk'.includesInPage, q) <=> MapHas(trk.includesInPage, q)
          /\ MapGet(trk'.includesInPage, q) = MapGet(trk.includesInPage, q)

\* C8: recordDependencies(p, L) replaces and never merges: afterwards p's
\* forward edges are exactly L, p is in the inverse set of no include outside
\* L, no include with an empty inverse set is a key of pagesByInclude, and the
\* forward edges of every other page are unchanged.
C8_RecordReplaces ==
    [][\A p \in DepFiles, L \in DepLists : DepRecord(p, L) => Replaced(p, L)]_vars

\* the page's one edge is to itself although the other file is known:
\* an edge that mentioned the other file is gone
C8_Witness ==
    /\ op.name = "recordDependencies"
    /\ trk.knownFiles = {FA, FC}
    /\ trk.includesInPage = <<[k |-> FA, v |-> <<FA>>]>>
    /\ trk.pagesByInclude = <<[k |-> FA, v |-> <<FA>>]>>

\* C10: getAffectedPages(x) returns, and returns no page twice, for every
\* graph the tracker can hold, graphs with include cycles among them.
C10_AffectedTerminatesWithoutDuplicates ==
    op.name = "getAffectedPages" =>
        /\ op.res.ok
        /\ \A m \in 1..Len(op.res.pages), n \in 1..Len(op.res.pages) :
              op.res.pages[m] = op.res.pages[n] => m = n

\* the edges of a map between files other than f, as pairs <<key, member>>
EdgesWithout(m, f) ==
    { e \in UNION { {<<m[n].k, i>> : i \in Range(m[n].v)} : n \in 1..Len(m) } :
        e[1] # f /\ e[2] # f }

\* what removeFile(f) leaves behind
Removed(f) ==
    /\ f \notin Mentioned(trk')
    /\ EdgesWithout(trk'.includesInPage, f) = EdgesWithout(trk.includesInPage, f)
    /\ EdgesWithout(trk'.pagesByInclude, f) = EdgesWithout(trk.pagesByInclude, f)

\* C11: after removeFile(x), x is neither a key nor a list member of
\* includesInPage or pagesByInclude, and every edge between files other than x
\* is unchanged.
C11_RemoveFileLeavesNoDanglingEdge ==
    [][\A f \in DepFiles : DepRemove(f) => Removed(f)]_vars

\* removeFile took the one include out of a page's list (only removeFile
\* leaves a page with an empty list)
C11_Witness ==
    /\ op.name = "removeFile"
    /\ trk.includesInPage = <<[k |-> FC, v |-> <<>>]>>
    /\ trk.pagesByInclude = <<>>
    /\ FA \notin trk.knownFiles

\* some file currently has f among its recorded includes
IsIncluded(f) ==
    \E n \in 1..Len(trk.includesInPage) : f \in Range(trk.includesInPage[n].v)

\* C12: isIncludeFile(f) is true if and only if at least one file currently has
\* f among its recorded includes, and isMainPage(f) is true if and only if f
\* currently has at least one recorded include and no file depends on f.
C12_QueryHelpersMatchEdges ==
    \A f \in Mentioned(trk) \cup DepFiles :
        /\ IsIncludeFile(trk, f) <=> IsIncluded(f)
        /\ IsMainPage(trk, f) <=> MapGet(trk.includesInPage, f) # <<>> /\ ~IsIncluded(f)

-----------------------------------------------------------------------------
(* Properties of the asset tracker (SpecAsset) *)

\* the pages still tracked whose most recent recording references the asset
PagesRecordedWith(assetPath) ==
    { p \in DOMAIN arec :
        assetPath \in Range(ExtractAssetReferences(arec[p].c, p, SourceRoot)) }

\* every asset path a page of the model can come to reference
AssetPaths ==
    atrk.referencedAssets \cup MapKeys(atrk.assetReferences)
    \cup UNION { Range(ExtractAssetReferences(c, p, SourceRoot)) :
                   c \in AssetContents, p \in AssetPages }

\* C13: after any sequence of recordAssetReferences, removePage and clear,
\* isAssetReferenced(a) is true if and only if a is in the reference set most
\* recently recorded for at least one page still tracked, and
\* getPagesThatReference(a) is exactly the set of those pages.
C13_ReferencesAreCurrent ==
    \A a \in AssetPaths :
        /\ IsAssetReferenced(atrk, a) <=> PagesRecordedWith(a) # {}
        /\ Range(GetPagesThatReference(atrk, a)) = PagesRecordedWith(a)
        /\ Len(GetPagesThatReference(atrk, a)) = Cardinality(PagesRecordedWith(a))

\* a page was recorded again, now without references, while the other page
\* still references an asset
C13_Witness ==
    /\ aop = [name |-> "recordAssetReferences", page |-> FA]
    /\ arec[FA] = [c |-> <<>>, again |-> TRUE]
    /\ FC \in DOMAIN arec
    /\ atrk.referencedAssets # {}

\* every asset path the tracker holds, in any of its three collections
RecordedAssets ==
    atrk.referencedAssets \cup MapKeys(atrk.assetReferences)
    \cup UNION { Range(atrk.htmlAssetCache[n].v) : n \in 1..Len(atrk.htmlAssetCache) }

\* the path is the source root or lies below it
WithinSourceRoot(path) ==
    LET root == Segs(SourceRoot)
    IN  /\ path # <<>> /\ path[1] = "/"
        /\ Len(root) <= Len(Segs(path))
        /\ SubSeq(Segs(path), 1, Len(root)) = root

\* the path is what an external URL or a data URI would resolve to if it
\* were taken for a file name
FromUrl(path) == \E n \in 1..Len(path) : path[n] \in {"http:", "https:", "data:", "e"}

\* C15: every asset path recorded by recordAssetReferences is equal to or
\* below the source root; a reference that resolves outside the source root,
\* an http://, https:// or protocol-relative URL and a data: URI are never
\* recorded.
C15_RecordedAssetsWithinRoot ==
    \A a \in RecordedAssets : WithinSourceRoot(a) /\ ~FromUrl(a)

-----------------------------------------------------------------------------
(* Properties of a full build: assets, errors and the outcome (SpecBuild) *)

BuildOver == phase \in {"done", "failed"}

\* the files an error was collected against
ErrorFiles == { results.errors[i].file : i \in 1..Len(results.errors) }

\* where the build writes a content file
PageOutput(p) ==
    IF IsHtmlFile(p) THEN GetOutputPath(p, SourceRoot, OutputRoot)
    ELSE MarkdownOutputPath(p, SourceRoot, OutputRoot)

\* the pages that were processed without an error
Succeeded == { p \in HtmlPages \cup MarkdownPages : p \notin ErrorFiles }

\* `text`, the content of `page`, has a reference to the local file g
RefersTo(text, page, g) ==
    \E i \in 1..Len(text) :
        /\ text[i].k = "ref"
        /\ ~FromUrl(text[i].p)
        /\ ResolveAssetPath(text[i].p, page, SourceRoot) = [ok |-> TRUE, path |-> g]

Copied(g) == GetOutputPath(g, SourceRoot, OutputRoot) \in DOMAIN output

\* C14: when a full build is over, an asset file has been copied to the output
\* tree exactly if the final content of a page that was processed without an
\* error refers to it, a reference that came in with an included partial
\* counting; an asset only pages that failed refer to is not copied.
C14_CopiedIffReferencedBySucceededPage ==
    BuildOver =>
        \A g \in Range(AssetFiles) :
            Copied(g) <=>
                \E p \in Succeeded :
                    /\ PageOutput(p) \in DOMAIN output
                    /\ RefersTo(output[PageOutput(p)], p, g)

\* the same for the builds in which every page can be written
C14_HoldsWhenPagesAreWritable ==
    (\A p \in DOMAIN fs : ~WriteFails(p)) => C14_CopiedIffReferencedBySucceededPage

\* processHtmlFile or processMarkdownFile can finish for p: the includes
\* below p can all be expanded and p's output can be written
CanProcess(p) == Expandable(p, {}, 0) /\ ~WriteFails(PageOutput(p))

\* C16: when a full build is over, each page whose processing failed has an
\* error recorded against it and no output, and every page whose processing
\* can finish has been processed and written whatever happened to the pages
\* before it; errors are recorded against no other file.
C16_ErrorsArePerFile ==
    BuildOver =>
        /\ \A p \in HtmlPages \cup MarkdownPages :
              IF CanProcess(p)
              THEN p \notin ErrorFiles /\ PageOutput(p) \in DOMAIN output
              ELSE p \in ErrorFiles /\ PageOutput(p) \notin DOMAIN output
        /\ ErrorFiles \subseteq HtmlPages \cup MarkdownPages
        /\ results.processed =
              Cardinality({ p \in HtmlPages \cup MarkdownPages : CanProcess(p) })

\* a.html and b.html include each other and have CircularDependencyError
\* recorded against them, and a page after them in the scan was written
C16_Witness ==
    /\ BuildOver
    /\ \E i \in 1..Len(results.errors) :
          /\ results.errors[i].file = FA
          /\ results.errors[i].error.name = "CircularDependencyError"
    /\ FB \in ErrorFiles
    /\ PageOutput(FE) \in DOMAIN output

\* the reported outcome has the counts of the build
CarriesCounts ==
    /\ {"processed", "copied", "skipped"} \subseteq DOMAIN outcome
    /\ outcome.processed = results.processed
    /\ outcome.copied = results.copied
    /\ outcome.skipped = results.skipped

\* the reported outcome is a failure with every collected {file, error} pair
ReportsFailure == outcome.kind = "BuildError" /\ outcome.cause = results.errors

\* the pages that were processed without an error still have their output
OutputKept == \A p \in Succeeded : PageOutput(p) \in DOMAIN output

\* C17: a build that collected an error reports failure, and what it reports
\* carries the exact processed, copied and skipped counts and the complete
\* list of errors; the output written for the pages that succeeded is kept.
C17_FailureCarriesCountsAndErrors ==
    BuildOver /\ results.errors # <<>> => ReportsFailure /\ CarriesCounts /\ OutputKept

\* what does hold of a failed build: failure, the error list, the output kept
C17_FailureCarriesErrors ==
    BuildOver /\ results.errors # <<>> => ReportsFailure /\ OutputKept

\* a build without an error reports its counts
C17_SuccessCarriesCounts ==
    BuildOver /\ results.errors = <<>> => outcome.kind = "result" /\ CarriesCounts

\* the files of the source tree that are partials by the convention
Partials == { p \in DOMAIN fs : IsFile(p) /\ IsPartialFile(p, IncludesDir) }

\* where the output of the source file p goes, whatever p is
Artifact(p) ==
    IF IsMarkdownFile(p) /\ ~IsHtmlFile(p)
    THEN MarkdownOutputPath(p, SourceRoot, OutputRoot)
    ELSE GetOutputPath(p, SourceRoot, OutputRoot)

\* C18: no partial ever has an artifact in the output tree: nothing is
\* written for a file inside the includes directory or for a file whose name
\* begins with an underscore, HTML or markdown.
C18_NoPartialInOutput == \A p \in Partials : Artifact(p) \notin DOMAIN output

\* what does hold of a full build: nothing is written for an HTML partial
C18_NoHtmlPartialInOutput ==
    \A p \in Partials : IsHtmlFile(p) => Artifact(p) \notin DOMAIN output

-----------------------------------------------------------------------------
(* Properties of the incremental build (SpecIncr) *)

\* an incremental build was asked for a changed HTML partial
ChangedPartial ==
    /\ incr.event \in {"changed", "added", "removed"}
    /\ IsHtmlFile(incr.changed) /\ IsPartialFile(incr.changed, IncludesDir)

\* the pages the dependency tracker had as including f when the file changed
Dependents(f) == Range(GetAffectedPages(incr.dt, f, StackLimit).pages)

\* C19: when the changed path is a partial, the incremental build plans and
\* rebuilds exactly the pages that include it, directly or through other
\* partials, according to the dependency tracker, no page when nothing
\* depends on it, and the watcher does not fall back to a full build.
C19_PartialRebuildsExactlyDependents ==
    ChangedPartial =>
        /\ incr.planned.ok
        /\ Range(incr.planned.files) = Dependents(incr.changed)
        /\ outcome.kind # "TypeError"
        /\ ~incr.fallback

\* an incremental build was asked for a changed page, HTML or markdown
ChangedPage ==
    /\ incr.event \in {"changed", "added"}
    /\ IsHtmlFile(incr.changed) \/ IsMarkdownFile(incr.changed)
    /\ ~IsPartialFile(incr.changed, IncludesDir)

RebuildOver == phase \in {"rebuilt", "rebuild-failed"}

\* a map of a tracker has the same for key q in m1 and m2
SameAt(m1, m2, q) ==
    /\ MapHas(m1, q) <=> MapHas(m2, q)
    /\ MapHas(m1, q) => MapGet(m1, q) = MapGet(m2, q)

\* page q is among the pages recorded as referring to asset a
RefersIn(t, q, a) ==
    MapHas(t.assetReferences, a) /\ ArrIndexOf(MapGet(t.assetReferences, a), q) > 0

ChangedAsset ==
    /\ incr.event \in {"changed", "added"}
    /\ ~IsHtmlFile(incr.changed) /\ ~IsMarkdownFile(incr.changed)

\* C21: when the changed path is an asset, the incremental build copies that
\* asset to the output tree whether or not a page refers to it, and no other
\* file of the output tree changes.
C21_ChangedAssetIsCopied ==
    ChangedAsset /\ RebuildOver =>
        \A g \in {incr.changed} :
            /\ incr.planned = [ok |-> TRUE, files |-> <<g>>]
            /\ Artifact(g) \in DOMAIN output
            /\ output[Artifact(g)] = fs[g].c
            /\ results.copied = 1
            /\ \A q \in (DOMAIN output \cup DOMAIN incr.output) \ {Artifact(g)} :
                  /\ q \in DOMAIN output \cap DOMAIN incr.output
                  /\ output[q] = incr.output[q]

\* what does hold: a changed asset is copied exactly if the asset tracker has
\* it as referenced, and nothing else changes
C21_ChangedAssetIsCopiedWhenReferenced ==
    ChangedAsset /\ RebuildOver =>
        \A g \in {incr.changed} :
            /\ incr.planned = [ok |-> TRUE, files |-> <<g>>]
            /\ IF IsAssetReferenced(incr.at, g)
               THEN Artifact(g) \in DOMAIN output /\ output[Artifact(g)] = fs[g].c
                    /\ results.copied = 1
               ELSE output = incr.output /\ results.skipped = 1
            /\ \A q \in (DOMAIN output \cup DOMAIN incr.output) \ {Artifact(g)} :
                  /\ q \in DOMAIN output \cap DOMAIN incr.output
                  /\ output[q] = incr.output[q]

\* an incremental build was asked for a deleted file and is over
RemovalHandled == incr.event = "removed" /\ RebuildOver

\* C22: when a source file is deleted, handling the change removes the file
\* from the dependency tracker and deletes its output artifact if there is
\* one, changes nothing else in the output tree, and ends without an error,
\* per-file errors included, also when the file had no artifact.
C22_RemovalForgetsFileAndArtifact ==
    RemovalHandled =>
        \A f \in {incr.changed} :
            /\ phase = "rebuilt"
            /\ results.errors = <<>>
            /\ dt = RemoveFile(incr.dt, f)
            /\ Artifact(f) \notin DOMAIN output
            /\ \A q \in (DOMAIN output \cup DOMAIN incr.output) \ {Artifact(f)} :
                  /\ q \in DOMAIN output \cap DOMAIN incr.output
                  /\ output[q] = incr.output[q]

\* what the incremental build does for a deleted file: it ends in an error,
\* and the tracker and the output tree are as they were
C22_RemovalFailsAndKeepsAll ==
    RemovalHandled =>
        /\ phase = "rebuild-failed"
        /\ dt = incr.dt
        /\ output = incr.output

\* the incremental build is over and the page it was asked for failed
PageFailedInRebuild ==
    /\ RebuildOver
    /\ incr.event \in {"changed", "added", "removed"}
    /\ IsHtmlFile(incr.changed) \/ IsMarkdownFile(incr.changed)
    /\ ~IsPartialFile(incr.changed, IncludesDir)
    /\ incr.changed \in ErrorFiles

\* C30: after an incremental build in which the page fails to process, every
\* asset the tracker reports as referenced is referenced by another page:
\* what an earlier build recorded for the failed page no longer counts.
C30_FailedPageReferencesNothing ==
    PageFailedInRebuild =>
        \A a \in AllPaths :
            IsAssetReferenced(at, a) =>
                \E q \in (HtmlPages \cup MarkdownPages) \ {incr.changed} : RefersIn(at, q, a)

\* what does hold: the asset tracker is as it was when the page fails in its
\* includes or cannot be read
C30_FailedPageKeepsItsReferences == PageFailedInRebuild => at = incr.at

-----------------------------------------------------------------------------
(* Properties of the directive syntax (SpecBuild) *)

\* the keyword of a directive in lower case
LowerCase(a) == IF a = "FILE" THEN "file" ELSE IF a = "VIRTUAL" THEN "virtual" ELSE a

\* the file a directive of `file` names when its keyword is read in lower case
TargetAnyCase(tok, file) == ResolveIncludePath(LowerCase(tok.a), tok.p, file, SourceRoot)

RECURSIVE ExpandableAnyCase(_, _, _)
\* Expandable, the keywords read in lower case
ExpandableAnyCase(file, chain, depth) ==
    /\ IsFile(file)
    /\ \A tok \in Range(Directives(file)) :
          /\ TargetAnyCase(tok, file).ok
          /\ IsFile(TargetAnyCase(tok, file).path)
          /\ TargetAnyCase(tok, file).path \notin chain \cup {file}
          /\ depth + 1 <= MAX_INCLUDE_DEPTH
          /\ ExpandableAnyCase(TargetAnyCase(tok, file).path, chain \cup {file}, depth + 1)

RECURSIVE ExpansionAnyCase(_, _)
\* Expansion, the keywords read in lower case
ExpansionAnyCase(c, file) ==
    IF c = <<>> THEN <<>>
    ELSE (IF Head(c).k = "inc"
          THEN LET t == TargetAnyCase(Head(c), file).path IN ExpansionAnyCase(fs[t].c, t)
          ELSE <<Head(c)>>)
         \o ExpansionAnyCase(Tail(c), file)

\* the page last processed has a directive written in upper case
UpperCaseDirective ==
    \E tok \in Range(Directives(last.file)) : tok.a \in {"FILE", "VIRTUAL"}

\* C27: a directive expands to the same result whatever the letter case of
\* its keyword: a page whose directives, read in lower case, can all be
\* expanded is processed without an error, and its text is what the
\* lower-case directives expand to.
C27_KeywordCaseDoesNotMatter ==
    Processed /\ ExpandableAnyCase(last.file, {}, 0) /\ Writable /\ NoDollar =>
        /\ last.err = NoErr
        /\ last.text = Framed(ExpansionAnyCase(fs[last.file].c, last.file))

\* what does hold: the same for the pages all of whose directives are written
\* in lower case
C27_LowerCaseExpands ==
    Processed /\ Expandable(last.file, {}, 0) /\ Writable /\ NoDollar =>
        /\ last.err = NoErr
        /\ last.text = Framed(Expansion(fs[last.file].c, last.file))

\* and a page with a directive written in upper case fails in resolveIncludePath
C27_UpperCaseFails ==
    Processed /\ UpperCaseDirective => last.err.name = "Error"

-----------------------------------------------------------------------------
(* Properties of the output layout (SpecOut) *)

\* C28: the mapping from source files to output paths is one-to-one: two
\* distinct pages or assets never get the same output path, with pretty
\* URLs or without, HTML and markdown alike.
C28_OutputPathsAreDistinct ==
    rout.done /\ rin.first # rin.second => rout.first # rout.second

\* what does hold: two distinct files that are not markdown never get the
\* same output path
C28_NonMarkdownPathsAreDistinct ==
    /\ rout.done /\ rin.first # rin.second
    /\ ~IsMarkdownFile(rin.first) /\ ~IsMarkdownFile(rin.second)
    => rout.first # rout.second

-----------------------------------------------------------------------------
(* Properties of the development server (SpecServe) *)

\* the canonical path a request names, read below the output directory
Requested == PathResolve(rin.outputRoot \o rin.pathname, <<>>)

\* p is the directory or lies below it at a path separator
AtOrBelow(p, dir) == p = dir \/ StartsWith(p, dir \o <<"/">>)

\* C29: the server serves content only from the output directory: a request
\* that resolves to the output directory or below it at a path separator is
\* not answered 403, and a request that resolves anywhere else, a directory
\* whose name begins with the output directory's name included, is answered
\* 403 without the content or the listing of any file.
C29_ServesOnlyBelowOutputRoot ==
    rout.done =>
        IF AtOrBelow(Requested, rin.outputRoot)
        THEN /\ rout.res.status # 403
             /\ rout.res.file # <<>> => AtOrBelow(rout.res.file, rin.outputRoot)
        ELSE rout.res = Forbidden

\* what does hold: a request whose resolved path does not begin with the
\* characters of the output directory is answered 403
C29_ForbiddenOutsidePrefix ==
    rout.done /\ ~StartsWith(Requested, rin.outputRoot) => rout.res = Forbidden

-----------------------------------------------------------------------------
(* Properties of a repeated full build (SpecIncr) *)

\* the second full build of the unchanged source tree is over
SecondBuildOver == incr.event = "again" /\ BuildOver

-----------------------------------------------------------------------------
(* Properties of the modification cache (SpecCache) *)

Scanned == rout.name = "incrementalBuild"

\* C25: with no changed path given, the changed set of the incremental build
\* is exactly the scanned files whose modification time is greater than the
\* cached one or that have no cache entry; a file whose modification time
\* equals its cached value is not rebuilt.
C25_ChangedSetIsNewerOrUncached ==
    Scanned =>
        /\ Range(rout.files) =
              { f \in Range(CacheFiles) :
                  \/ ~MapHas(rout.cache, f)
                  \/ mtime[f] > CacheGet(rout.cache, f).v }
        /\ \A f \in Range(CacheFiles) :
              MapHas(rout.cache, f) /\ mtime[f] = CacheGet(rout.cache, f).v
              => f \notin Range(rout.files)

\* what does hold: the same, for files whose cached time is not the epoch
C25_HoldsAfterTheEpoch ==
    Scanned =>
        Range(rout.files) =
          { f \in Range(CacheFiles) :
              \/ ~MapHas(rout.cache, f)
              \/ CacheGet(rout.cache, f).v = 0
              \/ mtime[f] > CacheGet(rout.cache, f).v }

\* every rebuilt file is cached with its current time, the others keep theirs
C25_RebuiltFilesAreCached ==
    Scanned =>
        \A f \in Range(CacheFiles) :
            CacheGet(cache, f) =
              IF f \in Range(rout.files) THEN [defined |-> TRUE, v |-> mtime[f]]
              ELSE CacheGet(rout.cache, f)

-----------------------------------------------------------------------------
(* Properties of the watcher's fallback (SpecIncr) *)

\* the incremental build threw and the watcher has not reacted yet
IncrementalThrew == phase = "rebuild-failed" /\ ~incr.fallback

\* the handler of a change is over, after a fallback whose full build succeeded
FallbackSucceeded == phase = "watching" /\ outcome.kind = "result"

\* every file of the source tree is cached with its modification time
CacheIsCurrent ==
    \A f \in Range(ScanDirectory) : CacheGet(cache, f) = [defined |-> TRUE, v |-> mtime[f]]

\* the step is the start of a full build: new trackers, a clean output
\* directory, every content file to do
FullBuildStarts ==
    /\ phase' = "content" /\ todo' = ContentFiles
    /\ dt' = NewTracker /\ at' = NewAssetTracker /\ output' = EmptyTree
    /\ fs' = fs

\* C24: in watch mode, whenever an incremental build throws, a full build is
\* run next; when that full build succeeds, the trackers the watcher uses for
\* later changes are the full build's trackers, and the modification cache is
\* initialised again from the whole source tree before the next change is
\* handled.
C24_FallbackRebuildsAndResynchronises ==
    /\ [][IncrementalThrew => FullBuildStarts]_vars
    /\ [](FallbackSucceeded =>
            /\ watch.current
            /\ WatcherDependencyTracker = dt /\ WatcherAssetTracker = at
            /\ CacheIsCurrent)

\* a fallback succeeded after a change that the incremental build had not
\* cached, and the full build's dependency tracker is not the one the
\* watcher had
C24_Witness ==
    /\ FallbackSucceeded
    /\ incr.dt # dt
    /\ \E f \in Range(ScanDirectory) : mtime[f] = 2 /\ CacheGet(cache, f).v = 2
    /\ results.processed > 0

\* after a fallback whose full build failed the watcher still holds the
\* trackers it had
C24_FailedFallbackKeepsTrackers ==
    phase = "watching" /\ outcome.kind = "BuildError" => ~watch.current

-----------------------------------------------------------------------------
(* Properties of a rebuilt page's edges (SpecDev, SpecIncr) *)

\* the page that changed has been rebuilt without an error, by the
\* incremental build or by the development server
PageRebuilt ==
    /\ ChangedPage
    /\ \/ phase = "rebuilt"
       \/ /\ phase = "served"
          /\ last.kind = "single" /\ last.file = incr.changed /\ last.err = NoErr

\* the include files the directives of file p name now
DirectivesNow(p) == Range(ExtractIncludeDependencies(Matches(fs[p].c), p, SourceRoot))

\* the assets the final content of page p refers to now
ReferencesNow(p) == Range(ExtractAssetReferences(output[PageOutput(p)], p, SourceRoot))

\* C23: after every rebuild of a page, by incrementalBuild or by the
\* development server's watcher, the tracker's forward edges of the page are
\* the include directives of its current source and its asset references
\* are those of its current final content; a change of an include the page
\* newly uses therefore has the page among the affected pages.
C23_RebuiltPageEdgesAreCurrent ==
    PageRebuilt =>
        \A p \in {incr.changed} :
            /\ Range(MapGet(dt.includesInPage, p)) = DirectivesNow(p)
            /\ \A a \in AllPaths : RefersIn(at, p, a) <=> a \in ReferencesNow(p)
            /\ \A f \in DirectivesNow(p) :
                  p \in Range(GetAffectedPages(dt, f, StackLimit).pages)

\* what does hold in the development server: a rebuild leaves both trackers
\* as the initial build made them
C23_ServerRebuildLeavesTrackers ==
    PageRebuilt /\ phase = "served" => dt = incr.dt /\ at = incr.at

-----------------------------------------------------------------------------
(* Properties of the edges a full build records (SpecBuild) *)

\* page p has its include edges recorded: its forward edges are the include
\* files its directives name, and it is among the affected pages of each
EdgesRecorded(p) ==
    /\ Range(MapGet(dt.includesInPage, p)) = DirectivesNow(p)
    /\ \A f \in DirectivesNow(p) :
          p \in Range(GetAffectedPages(dt, f, StackLimit).pages)

\* C31: after a full build, every page whose source has an include directive
\* has its include edges recorded in the dependency tracker, markdown pages
\* as well as HTML pages, so that getAffectedPages of an include a markdown
\* page uses contains that page.
C31_EveryPageHasItsEdges ==
    phase = "done" =>
        \A p \in HtmlPages \cup MarkdownPages : DirectivesNow(p) # {} => EdgesRecorded(p)

\* what does hold: the same for HTML pages
C31_HtmlPagesHaveTheirEdges ==
    phase = "done" => \A p \in HtmlPages : DirectivesNow(p) # {} => EdgesRecorded(p)

-----------------------------------------------------------------------------
(* Properties of a directive that names a missing file (SpecBuild) *)

\* the directive of link l names a path inside the source root where there
\* is no file
NamesMissingFile(l) == l[2].ok /\ ReadFile(l[2].path).st = "ENOENT"

\* the page last processed fails on missing files only: a directive of the
\* page or of a file it includes names a missing file, every other directive
\* can be expanded, and the page can be written
OnlyMissingIncludes(g) ==
    /\ Processed /\ IsFile(last.file) /\ Writable
    /\ FailingDirectives(g, last.file) # {}
    /\ \A l \in FailingDirectives(g, last.file) : NamesMissingFile(l)
    /\ ~ReachesCycle(g, last.file) /\ Nest(g, last.file) <= MAX_INCLUDE_DEPTH

\* C32: processIncludes applied to a document whose directive names a missing
\* file resolves instead of rejecting, with an error comment in place of that
\* directive; the build still writes the page, error comment included.
C32_MissingIncludeBecomesComment ==
    \A g \in {IncludeGraph} :
        OnlyMissingIncludes(g) =>
            /\ last.err = NoErr
            /\ HasErrorMarker(last.text)
            /\ OutputOfLast \in DOMAIN output
            /\ HasErrorMarker(output[OutputOfLast])

\* what does hold: processIncludes rejects with IncludeNotFoundError and the
\* build writes nothing for the page
C32_MissingIncludeFailsThePage ==
    \A g \in {IncludeGraph} :
        OnlyMissingIncludes(g) =>
            /\ last.err.name = "IncludeNotFoundError"
            /\ OutputOfLast \notin DOMAIN output

-----------------------------------------------------------------------------
(* Properties of the classification of source files (SpecClass) *)

\* C33: the full build and the incremental build classify every file alike,
\* whatever the includes directory is called: a file the full build skips as
\* a partial is a partial for the change analysis of the incremental build,
\* and a file the full build takes for a page is a page for it.
C33_SameClassification ==
    rout.done =>
        /\ rout.build = "partial" => rout.change = "partial"
        /\ rout.build = "page" => rout.change = "page"

\* what does hold: the two agree on every file when the includes option is
\* the default, and on assets and markdown files always
C33_SameClassificationByDefault ==
    /\ rout.done /\ rin.includes = DefaultIncludesDir => rout.change = rout.build
    /\ rout.done /\ ~IsHtmlFile(rin.file) => rout.change = rout.build

-----------------------------------------------------------------------------
(* Properties of the order of a full build (SpecBuild) *)

\* the content loop is done with file p: it was skipped as a partial, written,
\* or its error collected
ContentDone(p) ==
    \/ IsHtmlFile(p) /\ IsPartialFile(p, IncludesDir)
    \/ PageOutput(p) \in DOMAIN output
    \/ p \in ErrorFiles

\* the phases of build() in their order
PhaseOrder ==
    { <<"idle", "content">>, <<"content", "assets">>, <<"assets", "done">>,
      <<"assets", "failed">> }

\* C34: in a full build no asset is copied or skipped as unreferenced before
\* every content file has been processed or has failed: the phases come in
\* the order scanning, content, assets, and while assets are decided the
\* reference set of the build no longer changes.
C34_AssetsAfterAllContent ==
    /\ [](phase \in {"idle", "content"} =>
            results.copied = 0 /\ \A g \in Range(AssetFiles) : ~Copied(g))
    /\ [](phase = "assets" => \A p \in Range(ContentFiles) : ContentDone(p))
    /\ [][phase' # phase => <<phase, phase'>> \in PhaseOrder]_vars
    /\ [][phase = "assets" => at' = at]_vars

\* the asset loop is about to copy an asset that the last of several pages
\* refers to
C34_Witness ==
    /\ phase = "assets" /\ todo # <<>>
    /\ IsAssetReferenced(at, Head(todo))
    /\ results.processed >= 2
    /\ RefersIn(at, last.file, Head(todo))

-----------------------------------------------------------------------------
(* Properties of the counts of a full build (SpecBuild) *)

-----------------------------------------------------------------------------
(* Properties of the result of incrementalBuild (SpecScan, SpecIncr) *)

\* incrementalBuild returned a result to the watcher
IncrementalReturned == phase = "rebuilt" /\ outcome.kind = "result"

\* the returned result holds both trackers of the build
CarriesBothTrackers ==
    /\ {"dependencyTracker", "assetTracker"} \subseteq DOMAIN outcome
    /\ outcome.dependencyTracker = dt
    /\ outcome.assetTracker = at

\* C38: every result incrementalBuild returns, the early return without a
\* file to rebuild included, carries the dependency tracker and the asset
\* tracker it worked on, so the watcher's pair for the next call holds every
\* reference recorded so far.
C38_ResultCarriesBothTrackers == IncrementalReturned => CarriesBothTrackers

\* what does hold: a result returned after the rebuild loop carries both
C38_LoopResultCarriesBothTrackers ==
    IncrementalReturned /\ incr.planned.files # <<>> => CarriesBothTrackers

-----------------------------------------------------------------------------
(* Properties of a pass without a changed file (SpecScan) *)

\* incrementalBuild without a changed file has gone through its loop
ScanPassOver == RebuildOver /\ incr.event = "scan"

\* the pages of the source tree
Pages ==
    { p \in Range(ScanDirectory) :
        \/ IsHtmlFile(p) /\ ~IsPartialFile(p, IncludesDir)
        \/ ~IsHtmlFile(p) /\ IsMarkdownFile(p) }

\* the partials the pass detected as changed
ChangedPartials ==
    { f \in Range(incr.planned.files) : IsHtmlFile(f) /\ IsPartialFile(f, IncludesDir) }

\* C37: in an incremental pass with no changed path, when a file detected as
\* changed is a partial, every page that transitively includes it is rebuilt
\* in that same pass.
C37_ChangedPartialRebuildsItsPages ==
    ScanPassOver =>
        \A g \in {IncludeGraph} : \A f \in ChangedPartials : \A p \in Pages :
            f \in Below(g, p) => p \in Range(incr.planned.files)

\* what does hold: a page the pass did not detect as changed keeps the
\* output it had
C37_UnchangedPagesKeepTheirOutput ==
    ScanPassOver =>
        \A p \in Pages \ Range(incr.planned.files) :
            PageOutput(p) \in DOMAIN incr.output =>
                /\ PageOutput(p) \in DOMAIN output
                /\ output[PageOutput(p)] = incr.output[PageOutput(p)]

-----------------------------------------------------------------------------
(* Properties of the deletion of a page (SpecDev, SpecIncr) *)

\* a page was deleted and the handler of its 'unlink' event is over: the
\* development server's watcher has broadcast, the watcher of watch() is
\* back from its fallback
DeletionHandled ==
    /\ incr.event = "removed"
    /\ phase \in {"served", "watching"}
    /\ \/ IsHtmlFile(incr.changed) /\ ~IsPartialFile(incr.changed, IncludesDir)
       \/ ~IsHtmlFile(incr.changed) /\ IsMarkdownFile(incr.changed)

\* the asset tracker in use after the handler
TrackerInUse == IF phase = "served" THEN at ELSE WatcherAssetTracker

\* the assets the tracker held for page q before the event
AssetsBefore(q) == { g \in incr.at.referencedAssets : RefersIn(incr.at, q, g) }

\* C39: after a page is deleted and its deletion has been handled, assets
\* that only that page referenced are no longer reported as referenced by
\* the asset tracker in use.
C39_DeletedPageAssetsUnreferenced ==
    DeletionHandled =>
        \A g \in AssetsBefore(incr.changed) :
            (\A q \in DOMAIN fs : q # incr.changed => ~RefersIn(incr.at, q, g))
                => ~IsAssetReferenced(TrackerInUse, g)

\* what does hold: it is so when watch() fell back to a full build and that
\* build succeeded
C39_HoldsAfterSuccessfulFallback ==
    DeletionHandled /\ FallbackSucceeded =>
        \A g \in AssetsBefore(incr.changed) :
            (\A q \in DOMAIN fs : q # incr.changed => ~RefersIn(incr.at, q, g))
                => ~IsAssetReferenced(TrackerInUse, g)

-----------------------------------------------------------------------------
(* Properties of the watcher's change handler (SpecDebounce) *)

\* the builds in progress: one for each callback that awaits one
BuildsInProgress == Len(watch.callbacks)

\* C35: in watch mode, for every interleaving of file-change events, timer
\* firings and build completions, at most one build, incremental or fallback
\* full, is in progress at any time, and buildInProgress says whether one is.
C35_AtMostOneBuild ==
    /\ BuildsInProgress <= 1
    /\ watch.buildInProgress <=> BuildsInProgress = 1
    /\ watch.buildInProgress => ~watch.debounceTimer.pending

\* the fallback full build is in progress and an event arrived since it began
C35_Witness ==
    /\ BuildsInProgress = 1
    /\ watch.callbacks[1].stage = "full"
    /\ watch.uncovered # {}
    /\ watch.buildInProgress

\* C36: in watch mode every file-change event is eventually followed by a
\* rebuild that covers the changed file, also when it arrived within the
\* debounce window of an event for another file or while a build was in
\* progress (SpecDebounceFair).
C36_EveryChangeIsRebuilt ==
    \A f \in WatchedFiles : (f \in watch.uncovered) ~> (f \notin watch.uncovered)

\* what does hold: the file of the pending timer is the file of the latest
\* event, and it is the only file a build will be started for
C36_TimerHoldsTheLatestEvent ==
    watch.debounceTimer.pending =>
        /\ watch.debounceTimer.filePath \in watch.uncovered
        /\ ~watch.buildInProgress

====
